---- MODULE Spec2Model ----
(***************************************************************************)
(* DocINX resilient AI operations pipeline.                                *)
(*                                                                         *)
(* Part 1: the three circuit-breaker classes                               *)
(*   services/resilient_embedding_service.py  CircuitBreaker               *)
(*   services/queue_processor.py              CircuitBreaker               *)
(*   services/multi_llm_service.py            LLMCircuitBreaker            *)
(* Part 2: the embedding fallback chain (ResilientEmbeddingService).       *)
(* Part 3: the completion fallback chain (MultiLLMService).                *)
(* Part 4: the document queue (services/queue_processor.py): the tasks     *)
(*   process_document_task and retry_failed_embeddings.                    *)
(*                                                                         *)
(* Each part has its own specification over its own group of variables;    *)
(* the variables of the other parts keep their initial values.             *)
(***************************************************************************)
EXTENDS Integers, Sequences, FiniteSets, TLC

VARIABLES
    now,       \* the value time.time() returns (seconds)
    impl,      \* SpecBreaker: class of the breaker object under exercise
    prov,      \* SpecBreaker: provider key used with LLMCircuitBreaker ("-" otherwise)
    brk,       \* SpecBreaker: the breaker object
    last,      \* SpecBreaker: the last breaker call: operation, state before, result
    streak,    \* SpecBreaker: on_failure() calls since the breaker was CLOSED with count 0, no on_success() between
    hoSucc,    \* SpecBreaker: on_success() calls since the breaker entered HALF_OPEN
    admits,    \* SpecBreaker: can_execute() calls answered True since the breaker left OPEN, while HALF_OPEN
    chain,     \* SpecChain: the service object under exercise: "embedding" or "completion"
    env,       \* SpecChain: settings and installed libraries (fixed while the process runs)
    svc_cb,    \* SpecChain: the service's circuit_breaker object
    svc_cache, \* SpecChain: embedding_cache / response_cache
    model_loaded, \* SpecChain: LocalEmbeddingService.model_loaded
    call,      \* SpecChain: the chain call that has just returned: request, state before, result, providers tried
    document,  \* SpecQueue: the document row: mime type, number of chunks of its text, status, error_message
    rows,      \* SpecQueue: the committed chunk rows of the document
    qcb,       \* SpecQueue: the module-level embedding_circuit_breaker
    ptask,     \* SpecQueue: the process_document_task of the document
    pass,      \* SpecQueue: locals of the pass in progress (_process_document_async / _retry_embeddings_async)
    rtask,     \* SpecQueue: the retry_failed_embeddings task of the document
    qlast,     \* SpecQueue: the last step of a task: what it was and the state before it
    search_cache,  \* SpecSearch: VectorSearchService.search_cache
    slast,         \* SpecSearch: the last call of the search service: arguments, cache before, result
    chat_sessions, \* SpecChat: the committed rows of chat_sessions (their ids)
    chat_messages, \* SpecChat: the committed rows of chat_messages, in the order of their insertion
    clast,         \* SpecChat: the last call of process_chat_message: arguments, state before, result
    tc,            \* SpecTruncate: a call of _truncate_context: arguments and result
    ck,            \* SpecChunk: a call of _chunk_text_robust: text, settings and result
    race,          \* SpecRace: the end of a pass and its retry task, each at its own await
    flight,        \* SpecFlight: chain calls admitted by the breaker and awaiting their provider
    corpus         \* SpecCorpus: the documents table as the search service reads it

breakerVars == <<impl, prov, brk, last, streak, hoSucc, admits>>
chainVars == <<chain, env, svc_cb, svc_cache, model_loaded, call>>
queueVars == <<document, rows, qcb, ptask, pass, rtask, qlast>>
concVars == <<race, flight, corpus>>
frontVars == <<search_cache, slast, chat_sessions, chat_messages, clast, tc, ck, concVars>>
otherThanBreakerVars == <<chainVars, queueVars, frontVars>>
otherThanChainVars == <<breakerVars, queueVars, frontVars>>
otherThanQueueVars == <<breakerVars, frontVars>>
vars == <<now, breakerVars, chainVars, queueVars, frontVars>>

(***************************************************************************)
(* Bounds of the model.                                                    *)
(***************************************************************************)
TickStep == 60            \* SpecBreaker: seconds the clock advances in one Tick
BreakerMaxTicks == 13     \* SpecBreaker: the clock stops after this many Ticks
MaxFailureCount == 7      \* on_failure() is not called beyond this failure_count
MaxAdmits == 3            \* can_execute() calls followed within one HALF_OPEN period
ChainTickStep == 200      \* SpecChain: seconds the clock advances in one Tick
ChainMaxTicks == 2        \* SpecChain: the clock stops after this many Ticks

(***************************************************************************)
(* Part 1.  Circuit breakers.                                              *)
(***************************************************************************)
NoTime == -1              \* last_failure_time = None

Providers == {"openai", "anthropic"}

\* resilient_embedding_service.CircuitBreaker.__init__ defaults
Emb_failure_threshold == 5
Emb_recovery_timeout == 300
Emb_success_threshold == 3

Emb_init ==
    [state |-> "CLOSED", failure_count |-> 0, success_count |-> 0,
     last_failure_time |-> NoTime]

\* Mutant: the timeout comparison admits the call already at now - last = timeout.
Emb_can_execute_ge(b, t) ==
    IF b.state = "CLOSED" THEN [ret |-> TRUE, b |-> b, raised |-> FALSE]
    ELSE IF b.state = "OPEN" THEN
        IF b.last_failure_time = NoTime
        THEN [ret |-> FALSE, b |-> b, raised |-> TRUE]
        ELSE IF t - b.last_failure_time >= Emb_recovery_timeout
        THEN [ret |-> TRUE,
              b |-> [b EXCEPT !.state = "HALF_OPEN", !.success_count = 0],
              raised |-> FALSE]
        ELSE [ret |-> FALSE, b |-> b, raised |-> FALSE]
    ELSE [ret |-> TRUE, b |-> b, raised |-> FALSE]

\* Mutant: HALF_OPEN admits no call beyond the one that left OPEN.
Emb_can_execute_probe_once(b, t) ==
    IF b.state = "CLOSED" THEN [ret |-> TRUE, b |-> b, raised |-> FALSE]
    ELSE IF b.state = "OPEN" THEN
        IF b.last_failure_time = NoTime
        THEN [ret |-> FALSE, b |-> b, raised |-> TRUE]
        ELSE IF t - b.last_failure_time > Emb_recovery_timeout
        THEN [ret |-> TRUE,
              b |-> [b EXCEPT !.state = "HALF_OPEN", !.success_count = 0],
              raised |-> FALSE]
        ELSE [ret |-> FALSE, b |-> b, raised |-> FALSE]
    ELSE [ret |-> FALSE, b |-> b, raised |-> FALSE]

\* Mutant: success_count is not reset on entering HALF_OPEN.
Emb_can_execute_no_reset(b, t) ==
    IF b.state = "CLOSED" THEN [ret |-> TRUE, b |-> b, raised |-> FALSE]
    ELSE IF b.state = "OPEN" THEN
        IF b.last_failure_time = NoTime
        THEN [ret |-> FALSE, b |-> b, raised |-> TRUE]
        ELSE IF t - b.last_failure_time > Emb_recovery_timeout
        THEN [ret |-> TRUE, b |-> [b EXCEPT !.state = "HALF_OPEN"], raised |-> FALSE]
        ELSE [ret |-> FALSE, b |-> b, raised |-> FALSE]
    ELSE [ret |-> TRUE, b |-> b, raised |-> FALSE]

\* can_execute(): [ret: the boolean returned, b: the object after, raised: TypeError]
Emb_can_execute(b, t) ==
    IF b.state = "CLOSED" THEN [ret |-> TRUE, b |-> b, raised |-> FALSE]
    ELSE IF b.state = "OPEN" THEN
        IF b.last_failure_time = NoTime
        THEN [ret |-> FALSE, b |-> b, raised |-> TRUE]     \* float - None
        ELSE IF t - b.last_failure_time > Emb_recovery_timeout
        THEN [ret |-> TRUE,
              b |-> [b EXCEPT !.state = "HALF_OPEN", !.success_count = 0],
              raised |-> FALSE]
        ELSE [ret |-> FALSE, b |-> b, raised |-> FALSE]
    ELSE [ret |-> TRUE, b |-> b, raised |-> FALSE]         \* HALF_OPEN

Emb_on_success(b) ==
    IF b.state = "HALF_OPEN" THEN
        LET sc == b.success_count + 1 IN
        IF sc >= Emb_success_threshold
        THEN [b EXCEPT !.success_count = sc, !.state = "CLOSED", !.failure_count = 0]
        ELSE [b EXCEPT !.success_count = sc]
    ELSE IF b.state = "CLOSED" THEN
        [b EXCEPT !.failure_count = IF b.failure_count - 1 > 0 THEN b.failure_count - 1 ELSE 0]
    ELSE b

Emb_on_failure(b, t) ==
    LET fc == b.failure_count + 1
        b1 == [b EXCEPT !.failure_count = fc, !.last_failure_time = t]
    IN  IF b.state = "HALF_OPEN" THEN [b1 EXCEPT !.state = "OPEN"]
        ELSE IF fc >= Emb_failure_threshold THEN [b1 EXCEPT !.state = "OPEN"]
        ELSE b1

\* queue_processor.CircuitBreaker.__init__ defaults
Q_failure_threshold == 5
Q_recovery_timeout == 300

Q_init == [state |-> "CLOSED", failure_count |-> 0, last_failure_time |-> NoTime]

\* Mutant: the failure count starts afresh when the breaker enters HALF_OPEN.
Q_can_execute_fresh_count(b, t) ==
    IF b.state = "CLOSED" THEN [ret |-> TRUE, b |-> b, raised |-> FALSE]
    ELSE IF b.state = "OPEN" THEN
        IF b.last_failure_time = NoTime
        THEN [ret |-> FALSE, b |-> b, raised |-> TRUE]
        ELSE IF t - b.last_failure_time > Q_recovery_timeout
        THEN [ret |-> TRUE,
              b |-> [b EXCEPT !.state = "HALF_OPEN", !.failure_count = 0],
              raised |-> FALSE]
        ELSE [ret |-> FALSE, b |-> b, raised |-> FALSE]
    ELSE [ret |-> TRUE, b |-> b, raised |-> FALSE]

Q_can_execute(b, t) ==
    IF b.state = "CLOSED" THEN [ret |-> TRUE, b |-> b, raised |-> FALSE]
    ELSE IF b.state = "OPEN" THEN
        IF b.last_failure_time = NoTime
        THEN [ret |-> FALSE, b |-> b, raised |-> TRUE]
        ELSE IF t - b.last_failure_time > Q_recovery_timeout
        THEN [ret |-> TRUE, b |-> [b EXCEPT !.state = "HALF_OPEN"], raised |-> FALSE]
        ELSE [ret |-> FALSE, b |-> b, raised |-> FALSE]
    ELSE [ret |-> TRUE, b |-> b, raised |-> FALSE]

Q_on_success(b) == [b EXCEPT !.failure_count = 0, !.state = "CLOSED"]

\* Mutant: the breaker opens one failure late.
Q_on_failure_late(b, t) ==
    LET fc == b.failure_count + 1
        b1 == [b EXCEPT !.failure_count = fc, !.last_failure_time = t]
    IN  IF fc > Q_failure_threshold THEN [b1 EXCEPT !.state = "OPEN"] ELSE b1

Q_on_failure(b, t) ==
    LET fc == b.failure_count + 1
        b1 == [b EXCEPT !.failure_count = fc, !.last_failure_time = t]
    IN  IF fc >= Q_failure_threshold THEN [b1 EXCEPT !.state = "OPEN"] ELSE b1

\* multi_llm_service.LLMCircuitBreaker.__init__ defaults
LLM_failure_threshold == 3
LLM_recovery_timeout == 180

\* self.providers = {}
LLM_init == [x \in {} |-> 0]

LLM_new_state == [failure_count |-> 0, state |-> "CLOSED", last_failure_time |-> NoTime]

\* _get_provider_state: the dict with the provider's entry created when absent
LLM_get_provider_state(d, p) ==
    IF p \in DOMAIN d THEN d
    ELSE [q \in (DOMAIN d) \cup {p} |-> IF q = p THEN LLM_new_state ELSE d[q]]

LLM_can_execute(d, p, t) ==
    LET d1 == LLM_get_provider_state(d, p)
        s  == d1[p]
    IN  IF s.state = "CLOSED" THEN [ret |-> TRUE, b |-> d1, raised |-> FALSE]
        ELSE IF s.state = "OPEN" THEN
            IF s.last_failure_time = NoTime
            THEN [ret |-> FALSE, b |-> d1, raised |-> TRUE]
            ELSE IF t - s.last_failure_time > LLM_recovery_timeout
            THEN [ret |-> TRUE, b |-> [d1 EXCEPT ![p].state = "HALF_OPEN"], raised |-> FALSE]
            ELSE [ret |-> FALSE, b |-> d1, raised |-> FALSE]
        ELSE [ret |-> TRUE, b |-> d1, raised |-> FALSE]

LLM_on_success(d, p) ==
    LET d1 == LLM_get_provider_state(d, p)
    IN  [d1 EXCEPT ![p].failure_count = 0, ![p].state = "CLOSED"]

\* Mutant: the failure timestamp is not recorded.
LLM_on_failure_no_timestamp(d, p, t) ==
    LET d1 == LLM_get_provider_state(d, p)
        fc == d1[p].failure_count + 1
        d2 == [d1 EXCEPT ![p].failure_count = fc]
    IN  IF fc >= LLM_failure_threshold THEN [d2 EXCEPT ![p].state = "OPEN"] ELSE d2

LLM_on_failure(d, p, t) ==
    LET d1 == LLM_get_provider_state(d, p)
        fc == d1[p].failure_count + 1
        d2 == [d1 EXCEPT ![p].failure_count = fc, ![p].last_failure_time = t]
    IN  IF fc >= LLM_failure_threshold THEN [d2 EXCEPT ![p].state = "OPEN"] ELSE d2

(***************************************************************************)
(* One view of the three classes: state, failure_count, last_failure_time  *)
(* of the breaker (of provider p's entry for LLMCircuitBreaker, the entry  *)
(* _get_provider_state would create when there is none yet).               *)
(***************************************************************************)
Impls == {"embedding", "queue", "llm"}

BreakerView(i, b, p) ==
    IF i = "llm"
    THEN LET s == LLM_get_provider_state(b, p)[p]
         IN  [state |-> s.state, failure_count |-> s.failure_count,
              last_failure_time |-> s.last_failure_time]
    ELSE [state |-> b.state, failure_count |-> b.failure_count,
          last_failure_time |-> b.last_failure_time]

FailureThreshold(i) ==
    IF i = "embedding" THEN Emb_failure_threshold
    ELSE IF i = "queue" THEN Q_failure_threshold ELSE LLM_failure_threshold

RecoveryTimeout(i) ==
    IF i = "embedding" THEN Emb_recovery_timeout
    ELSE IF i = "queue" THEN Q_recovery_timeout ELSE LLM_recovery_timeout

can_execute(i, b, p, t) ==
    IF i = "embedding" THEN Emb_can_execute(b, t)
    ELSE IF i = "queue" THEN Q_can_execute(b, t) ELSE LLM_can_execute(b, p, t)

on_success(i, b, p) ==
    IF i = "embedding" THEN Emb_on_success(b)
    ELSE IF i = "queue" THEN Q_on_success(b) ELSE LLM_on_success(b, p)

on_failure(i, b, p, t) ==
    IF i = "embedding" THEN Emb_on_failure(b, t)
    ELSE IF i = "queue" THEN Q_on_failure(b, t) ELSE LLM_on_failure(b, p, t)

(***************************************************************************)
(* SpecBreaker: one breaker object of one of the three classes, called in  *)
(* any order by its clients while the clock advances.                      *)
(***************************************************************************)
NoCall == [op |-> "none", ret |-> FALSE, raised |-> FALSE, t |-> 0,
           pre |-> [state |-> "CLOSED", failure_count |-> 0, last_failure_time |-> NoTime]]

EmptyDict == [x \in {} |-> 0]

NoChainCall ==
    [op |-> "none", req |-> "", docs |-> <<>>, t |-> 0, raised |-> FALSE,
     result |-> "", tag |-> "", events |-> <<>>,
     pre |-> [cb |-> EmptyDict, cache |-> EmptyDict, loaded |-> FALSE]]

\* No task is running or queued.
NoTask == [state |-> "none", retries |-> 0, eta |-> 0, execs |-> 0, countdown |-> 0,
           exc |-> "", delays |-> <<>>, redelivered |-> 0, faults |-> 0]

NoPass == [kind |-> "none", i |-> 0, created |-> 0, failed |-> 0, added |-> <<>>,
           todo |-> <<>>, stopped |-> FALSE, log |-> <<>>, base |-> <<>>]

NoDocument == [mime |-> "", n |-> 0, status |-> "", error_message |-> ""]

NoStep == [op |-> "none", t |-> 0, qcb |-> Q_init, pass |-> NoPass, retries |-> 0,
           svc |-> [cb |-> EmptyDict, cache |-> EmptyDict, call |-> NoChainCall],
           document |-> NoDocument, rows |-> <<>>, ptask |-> NoTask, rtask |-> NoTask]

\* SpecBreaker and SpecChain leave the queue untouched.
NoSearch ==
    [op |-> "none", query |-> "", limit |-> 0, w |-> <<>>, pre |-> EmptyDict,
     results |-> <<>>, method |-> "", raised |-> FALSE, tried |-> <<>>]

NoChat ==
    [op |-> "none", session_id |-> "", message |-> "", f |-> <<>>,
     pre |-> [sessions |-> {}, messages |-> <<>>],
     raised |-> FALSE, success |-> FALSE, response |-> "", persisted |-> <<>>]

NoTruncate == [messages |-> <<>>, max_length |-> 0, done |-> FALSE, result |-> <<>>]

NoRace == [pass_pc |-> "loop", retry_pc |-> "none", rpass |-> NoPass]
NoCorpus == <<>>
ConcIdle == race = NoRace /\ flight = 0 /\ corpus = NoCorpus
NoChunking ==
    [text |-> <<>>, chunk_size |-> 0, overlap |-> 0, done |-> FALSE, chunks |-> <<>>]

\* The specifications of the tasks and the chains leave the chat service
\* untouched.
FrontIdle ==
    /\ search_cache = EmptyDict /\ slast = NoSearch
    /\ chat_sessions = {} /\ chat_messages = <<>> /\ clast = NoChat
    /\ tc = NoTruncate
    /\ ck = NoChunking /\ ConcIdle

QueueIdle ==
    /\ document = NoDocument
    /\ rows = <<>>
    /\ qcb = Q_init
    /\ ptask = NoTask
    /\ pass = NoPass
    /\ rtask = NoTask
    /\ qlast = NoStep

\* SpecBreaker leaves the chain services untouched.
ChainIdle ==
    /\ chain = "none"
    /\ env = [api_key |-> FALSE, sklearn |-> FALSE, anthropic |-> FALSE]
    /\ svc_cb = EmptyDict
    /\ svc_cache = EmptyDict
    /\ model_loaded = FALSE
    /\ call = NoChainCall

BreakerInit ==
    /\ ChainIdle
    /\ QueueIdle
    /\ FrontIdle
    /\ now = 0
    /\ impl \in Impls
    /\ prov \in (IF impl = "llm" THEN Providers ELSE {"-"})
    /\ brk = (IF impl = "embedding" THEN Emb_init
              ELSE IF impl = "queue" THEN Q_init ELSE LLM_init)
    /\ last = NoCall
    /\ streak = 0
    /\ hoSucc = 0
    /\ admits = 0

Cur == BreakerView(impl, brk, prov)

BrkCanExecute ==
    LET pre == Cur
        r   == can_execute(impl, brk, prov, now)
        post == BreakerView(impl, r.b, prov)
    IN  /\ (pre.state = "HALF_OPEN" => admits < MaxAdmits)
        /\ brk' = r.b
        /\ last' = [op |-> "can_execute", ret |-> r.ret, raised |-> r.raised,
                    t |-> now, pre |-> pre]
        /\ admits' = (IF post.state # "HALF_OPEN" THEN 0
                      ELSE IF pre.state = "OPEN" THEN 1
                      ELSE IF r.ret THEN admits + 1 ELSE admits)
        /\ hoSucc' = (IF pre.state = "OPEN" /\ post.state = "HALF_OPEN" THEN 0 ELSE hoSucc)
        /\ UNCHANGED <<now, impl, prov, streak, otherThanBreakerVars>>

BrkOnSuccess ==
    LET pre == Cur
        b1  == on_success(impl, brk, prov)
        post == BreakerView(impl, b1, prov)
    IN  /\ brk' = b1
        /\ last' = [op |-> "on_success", ret |-> FALSE, raised |-> FALSE,
                    t |-> now, pre |-> pre]
        /\ streak' = 0
        /\ hoSucc' = (IF pre.state = "HALF_OPEN" THEN hoSucc + 1 ELSE hoSucc)
        /\ admits' = (IF post.state = "HALF_OPEN" THEN admits ELSE 0)
        /\ UNCHANGED <<now, impl, prov, otherThanBreakerVars>>

BrkOnFailure ==
    LET pre == Cur
        b1  == on_failure(impl, brk, prov, now)
        post == BreakerView(impl, b1, prov)
    IN  /\ pre.failure_count < MaxFailureCount
        /\ brk' = b1
        /\ last' = [op |-> "on_failure", ret |-> FALSE, raised |-> FALSE,
                    t |-> now, pre |-> pre]
        /\ streak' = (IF streak > 0 THEN streak + 1
                      ELSE IF pre.state = "CLOSED" /\ pre.failure_count = 0 THEN 1
                      ELSE 0)
        /\ admits' = (IF post.state = "HALF_OPEN" THEN admits ELSE 0)
        /\ UNCHANGED <<now, impl, prov, hoSucc, otherThanBreakerVars>>

BrkTick ==
    /\ now + TickStep <= BreakerMaxTicks * TickStep
    /\ now' = now + TickStep
    /\ UNCHANGED <<breakerVars, otherThanBreakerVars>>

BreakerNext == BrkCanExecute \/ BrkOnSuccess \/ BrkOnFailure \/ BrkTick

SpecBreaker == BreakerInit /\ [][BreakerNext]_vars

(***************************************************************************)
(* Claims about the breakers (SpecBreaker).                                *)
(***************************************************************************)
TimeoutElapsed(c) == c.t - c.pre.last_failure_time > RecoveryTimeout(impl)

\* C3: starting CLOSED with failure count 0, after failure_threshold
\* on_failure() calls with no success between them the breaker is OPEN with
\* the time of the failure recorded; a can_execute() on an OPEN breaker
\* returns false and changes nothing while now - last_failure_time <=
\* recovery_timeout, and once the timeout has elapsed it returns true and
\* moves the breaker to HALF_OPEN.
C3_OpenThenGatedByTimeout ==
    /\ (last.op = "on_failure" /\ streak >= FailureThreshold(impl))
          => (Cur.state = "OPEN" /\ Cur.last_failure_time = last.t)
    /\ (/\ last.op = "can_execute" /\ last.pre.state = "OPEN"
        /\ last.pre.last_failure_time # NoTime /\ ~TimeoutElapsed(last))
          => (~last.ret /\ Cur = last.pre)
    /\ (/\ last.op = "can_execute" /\ last.pre.state = "OPEN"
        /\ last.pre.last_failure_time # NoTime /\ TimeoutElapsed(last))
          => (last.ret /\ Cur.state = "HALF_OPEN")

\* C3 witness: failure_threshold failures in a row opened a fresh breaker and
\* the first can_execute() after the timeout returned true, leaving HALF_OPEN.
C3_Witness ==
    /\ streak = FailureThreshold(impl)
    /\ last.op = "can_execute" /\ last.pre.state = "OPEN" /\ last.ret
    /\ Cur.state = "HALF_OPEN"

\* C4 (as stated): after the timeout has elapsed can_execute() returns true
\* exactly once: while the breaker stays HALF_OPEN no second call is admitted.
C4_AdmitsExactlyOnce == Cur.state = "HALF_OPEN" => admits <= 1

\* C4 (amended): once the timeout has elapsed on an OPEN breaker the first
\* can_execute() returns true and moves it to HALF_OPEN; HALF_OPEN does not
\* limit calls: every can_execute() on a HALF_OPEN breaker returns true and
\* leaves the breaker as it was.
C4_HalfOpenAdmitsEveryCall ==
    /\ (/\ last.op = "can_execute" /\ last.pre.state = "OPEN"
        /\ last.pre.last_failure_time # NoTime /\ TimeoutElapsed(last))
          => (last.ret /\ Cur.state = "HALF_OPEN" /\ admits = 1)
    /\ (last.op = "can_execute" /\ last.pre.state = "HALF_OPEN")
          => (last.ret /\ Cur = last.pre /\ admits >= 2)

\* C4 witness: a second and a third can_execute() were admitted in HALF_OPEN.
C4_Witness ==
    /\ last.op = "can_execute" /\ last.pre.state = "HALF_OPEN" /\ last.ret
    /\ Cur.state = "HALF_OPEN" /\ admits = MaxAdmits

C6_HalfOpenFailureOpens ==
    (last.op = "on_failure" /\ last.pre.state = "HALF_OPEN")
        => (Cur.state = "OPEN" /\ Cur.last_failure_time = last.t)

\* C6 witness: a failure after two successes in HALF_OPEN, later than the
\* failure that had opened the breaker.
C6_Witness ==
    /\ last.op = "on_failure" /\ last.pre.state = "HALF_OPEN"
    /\ hoSucc = 2 /\ Cur.state = "OPEN"
    /\ last.pre.last_failure_time < last.t

\* C7: no breaker call raises: an OPEN breaker always has last_failure_time
\* set, the state is one of the three, and can_execute() returns a boolean.
C7_NeverRaises ==
    /\ ~last.raised
    /\ Cur.state \in {"CLOSED", "OPEN", "HALF_OPEN"}
    /\ Cur.state = "OPEN" => Cur.last_failure_time # NoTime
    /\ last.ret \in BOOLEAN

\* C7 witness: can_execute() evaluated the timeout comparison on an OPEN
\* breaker and denied the call.
C7_Witness ==
    /\ last.op = "can_execute" /\ last.pre.state = "OPEN"
    /\ ~last.ret /\ Cur.state = "OPEN"

BreakerStates == {"CLOSED", "OPEN", "HALF_OPEN"}

\* C37: for each breaker class, in every reachable state the state is one of
\* CLOSED, OPEN, HALF_OPEN, and a CLOSED breaker has
\* 0 <= failure_count < failure_threshold.
C37_ClosedBelowThreshold ==
    /\ Cur.state \in BreakerStates
    /\ Cur.state = "CLOSED"
          => (0 <= Cur.failure_count /\ Cur.failure_count < FailureThreshold(impl))

\* A failure has just left the breaker CLOSED one failure below its threshold.
C37_Witness ==
    /\ last.op = "on_failure"
    /\ Cur.state = "CLOSED"
    /\ Cur.failure_count = FailureThreshold(impl) - 1

(***************************************************************************)
(* Part 2.  The embedding fallback chain.                                  *)
(*                                                                         *)
(* A vector is modelled by its provenance, its length and the text it was  *)
(* computed from; None is NoneEmb.                                         *)
(***************************************************************************)
embedding_dimensions == 1536      \* settings.embedding_dimensions
target_dim == 1536                \* LocalEmbeddingService.generate_embedding
hash_rounds == 12                 \* _generate_hash_embedding: for i in range(12)
hash_round_dim == 128             \* np.random.normal(0, 0.1, 128)
try_openai_embedding_attempts == 3   \* stop_after_attempt(3)

NoneEmb == [kind |-> "None", dim |-> 0, of |-> ""]

Vec(kind, dim, text) == [kind |-> kind, dim |-> dim, of |-> text]

\* `if embedding:` - a list is true when it is not empty
TruthyEmb(e) == e.kind # "None" /\ e.dim > 0

\* hashlib.md5(...).hexdigest(): distinct inputs give distinct digests
md5(x) == <<"md5", x>>

DictPut(d, k, v) == [x \in (DOMAIN d) \cup {k} |-> IF x = k THEN v ELSE d[x]]

\* The i-th outcome of a remote API during one chain call; the last outcome
\* of the script repeats.
ScriptAt(script, i) == script[IF i <= Len(script) THEN i ELSE Len(script)]

\* OpenAIService.generate_embedding.  No key: the demo vector, no request.
\* With a key: the API's vector, or on any error of the API the same random
\* vector again (the except block returns instead of raising), so tenacity
\* never sees an exception and the request is made once.
OpenAI_generate_embedding(key, text, outcome) ==
    IF ~key
    THEN [raised |-> FALSE, err |-> "",
          value |-> Vec("fake", embedding_dimensions, text), remote |-> <<>>]
    ELSE IF outcome = "ok"
    THEN [raised |-> FALSE, err |-> "",
          value |-> Vec("openai", embedding_dimensions, text), remote |-> <<outcome>>]
    ELSE [raised |-> FALSE, err |-> "",
          value |-> Vec("fake", embedding_dimensions, text), remote |-> <<outcome>>]

\* _try_openai_embedding under @retry(stop_after_attempt(3)): attempt k.
\* kind "return" with the value, or "raise" (tenacity's RetryError after the
\* last attempt); remote lists the outcomes of the API requests made.
RECURSIVE try_openai_embedding_from(_, _, _, _, _)
try_openai_embedding_from(k, key, text, script, remote) ==
    IF ~key
    THEN [kind |-> "return", value |-> NoneEmb, attempts |-> k, remote |-> remote]
    ELSE LET r   == OpenAI_generate_embedding(key, text, ScriptAt(script, Len(remote) + 1))
             rem == remote \o r.remote
         IN  IF ~r.raised
             THEN [kind |-> "return", value |-> r.value, attempts |-> k, remote |-> rem]
             ELSE IF r.err = "quota"
             THEN [kind |-> "return", value |-> NoneEmb, attempts |-> k, remote |-> rem]
             ELSE IF k >= try_openai_embedding_attempts
             THEN [kind |-> "raise", value |-> NoneEmb, attempts |-> k, remote |-> rem]
             ELSE try_openai_embedding_from(k + 1, key, text, script, rem)

try_openai_embedding(key, text, script) ==
    try_openai_embedding_from(1, key, text, script, <<>>)

\* LocalEmbeddingService._generate_hash_embedding; ok = FALSE: it raises
generate_hash_embedding(text, ok) ==
    IF ok
    THEN LET n == hash_rounds * hash_round_dim
         IN  [raised |-> FALSE,
              value |-> Vec("hash", IF n > embedding_dimensions THEN embedding_dimensions ELSE n, text)]
    ELSE [raised |-> TRUE, value |-> NoneEmb]

\* Mutant: the TF-IDF row is returned as it is, neither padded nor cut.
Local_generate_embedding_no_pad(loaded, sklearn, text, tfidf, hashOk) ==
    LET loaded1 == loaded \/ sklearn
    IN  IF loaded1
        THEN IF tfidf.raises
             THEN generate_hash_embedding(text, hashOk) @@ [loaded |-> loaded1]
             ELSE [raised |-> FALSE, value |-> Vec("tfidf", tfidf.dim, text), loaded |-> loaded1]
        ELSE generate_hash_embedding(text, hashOk) @@ [loaded |-> loaded1]

\* LocalEmbeddingService.generate_embedding.  sklearn: the import succeeds;
\* tfidf: fit_transform raises, or the length of the row it returns.
Local_generate_embedding(loaded, sklearn, text, tfidf, hashOk) ==
    LET loaded1 == loaded \/ sklearn          \* _load_simple_vectorizer
    IN  IF loaded1
        THEN IF tfidf.raises
             THEN generate_hash_embedding(text, hashOk) @@ [loaded |-> loaded1]
             ELSE LET d == IF tfidf.dim < target_dim THEN target_dim
                           ELSE IF tfidf.dim > target_dim THEN target_dim
                           ELSE tfidf.dim
                  IN  [raised |-> FALSE, value |-> Vec("tfidf", d, text), loaded |-> loaded1]
        ELSE generate_hash_embedding(text, hashOk) @@ [loaded |-> loaded1]

Stage(p, o, attempts, remote) ==
    [p |-> p, o |-> o, attempts |-> attempts, remote |-> remote]

ChainResult(raised, result, tag, cb, cache, loaded, events) ==
    [raised |-> raised, result |-> result, tag |-> tag, cb |-> cb,
     cache |-> cache, loaded |-> loaded, events |-> events]

\* generate_embedding_with_fallback, lines 174-192: local TF-IDF, then hash
\* Mutant: the result of the hash stage is returned but not stored.
embedding_local_stages_hash_uncached(cb, cache, loaded, e, text, in, events) ==
    LET k  == md5(text)
        l  == Local_generate_embedding(loaded, e.sklearn, text, in.tfidf, in.hash1)
    IN  IF ~l.raised /\ TruthyEmb(l.value)
        THEN ChainResult(FALSE, l.value, "local_tfidf", cb, DictPut(cache, k, l.value),
                         l.loaded, Append(events, Stage("local_tfidf", "ok", 1, <<>>)))
        ELSE LET ev2 == Append(events, Stage("local_tfidf", "failed", 1, <<>>))
                 h   == generate_hash_embedding(text, in.hash2)
             IN  IF ~h.raised
                 THEN ChainResult(FALSE, h.value, "hash_fallback", cb, cache, l.loaded,
                                  Append(ev2, Stage("hash_fallback", "ok", 1, <<>>)))
                 ELSE ChainResult(FALSE, NoneEmb, "failed", cb, cache, l.loaded,
                                  Append(ev2, Stage("hash_fallback", "failed", 1, <<>>)))

embedding_local_stages(cb, cache, loaded, e, text, in, events) ==
    LET k  == md5(text)
        l  == Local_generate_embedding(loaded, e.sklearn, text, in.tfidf, in.hash1)
    IN  IF ~l.raised /\ TruthyEmb(l.value)
        THEN ChainResult(FALSE, l.value, "local_tfidf", cb, DictPut(cache, k, l.value),
                         l.loaded, Append(events, Stage("local_tfidf", "ok", 1, <<>>)))
        ELSE LET ev2 == Append(events, Stage("local_tfidf", "failed", 1, <<>>))
                 h   == generate_hash_embedding(text, in.hash2)
             IN  IF ~h.raised
                 THEN ChainResult(FALSE, h.value, "hash_fallback", cb,
                                  DictPut(cache, k, h.value), l.loaded,
                                  Append(ev2, Stage("hash_fallback", "ok", 1, <<>>)))
                 ELSE ChainResult(FALSE, NoneEmb, "failed", cb, cache, l.loaded,
                                  Append(ev2, Stage("hash_fallback", "failed", 1, <<>>)))

\* Mutant: the breaker is consulted before the cache is looked up.
generate_embedding_with_fallback_breaker_first(cb, cache, loaded, e, text, in, t) ==
    LET k  == md5(text)
        ce == Emb_can_execute(cb, t)
    IN  IF ce.raised
        THEN ChainResult(TRUE, NoneEmb, "", cb, cache, loaded, <<>>)
        ELSE IF k \in DOMAIN cache
        THEN ChainResult(FALSE, cache[k], "cache", ce.b, cache, loaded, <<>>)
        ELSE IF ~ce.ret
        THEN embedding_local_stages(ce.b, cache, loaded, e, text, in,
                                    <<Stage("openai", "skipped", 0, <<>>)>>)
        ELSE
        LET r == try_openai_embedding(e.api_key, text, in.script)
        IN  IF r.kind = "return" /\ TruthyEmb(r.value)
            THEN ChainResult(FALSE, r.value, "openai", Emb_on_success(ce.b),
                             DictPut(cache, k, r.value), loaded,
                             <<Stage("openai", "ok", r.attempts, r.remote)>>)
            ELSE embedding_local_stages(Emb_on_failure(ce.b, t), cache, loaded, e,
                                        text, in,
                                        <<Stage("openai", "failed", r.attempts, r.remote)>>)

\* ResilientEmbeddingService.generate_embedding_with_fallback
generate_embedding_with_fallback(cb, cache, loaded, e, text, in, t) ==
    LET k == md5(text)
    IN  IF k \in DOMAIN cache
        THEN ChainResult(FALSE, cache[k], "cache", cb, cache, loaded, <<>>)
        ELSE
        LET ce == Emb_can_execute(cb, t)
        IN  IF ce.raised
            THEN ChainResult(TRUE, NoneEmb, "", cb, cache, loaded, <<>>)
            ELSE IF ~ce.ret
            THEN embedding_local_stages(ce.b, cache, loaded, e, text, in,
                                        <<Stage("openai", "skipped", 0, <<>>)>>)
            ELSE
            LET r == try_openai_embedding(e.api_key, text, in.script)
            IN  IF r.kind = "return" /\ TruthyEmb(r.value)
                THEN ChainResult(FALSE, r.value, "openai", Emb_on_success(ce.b),
                                 DictPut(cache, k, r.value), loaded,
                                 <<Stage("openai", "ok", r.attempts, r.remote)>>)
                ELSE embedding_local_stages(Emb_on_failure(ce.b, t), cache, loaded, e,
                                            text, in,
                                            <<Stage("openai", "failed", r.attempts, r.remote)>>)

(***************************************************************************)
(* Part 3.  The completion fallback chain.                                 *)
(*                                                                         *)
(* A message is a dict; a well-formed one has the keys role and content.   *)
(* A response is a string; None is NoneStr.  retrieved_docs = None and     *)
(* retrieved_docs = [] take the same branch and are both <<>>.             *)
(***************************************************************************)
default_max_tokens == 1000            \* max_tokens: int = 1000
default_temperature == "0.7"          \* temperature: float = 0.7
openai_service_attempts == 3          \* OpenAIService: stop_after_attempt(3)
try_openai_completion_attempts == 2   \* stop_after_attempt(2)
try_anthropic_completion_attempts == 2   \* stop_after_attempt(2)
top_docs_count == 3                   \* retrieved_docs[:3]
doc_excerpt_len == 500                \* doc[:500]

NoneStr == "<None>"

\* `if response:` - None and "" are false
TruthyStr(v) == v # NoneStr /\ v # ""

ApologyText ==
    "I apologize, but I'm currently unable to process your request due to technical difficulties. Please try again later."

\* messages[-1]["content"] if messages else "Hello"
last_message_content(messages) ==
    IF Len(messages) = 0 THEN [raised |-> FALSE, value |-> "Hello"]
    ELSE IF "content" \in DOMAIN messages[Len(messages)]
    THEN [raised |-> FALSE, value |-> messages[Len(messages)].content]
    ELSE [raised |-> TRUE, value |-> ""]                       \* KeyError

\* OpenAIService.generate_chat_completion under @retry(stop_after_attempt(3)):
\* attempt k.  An error of the API is answered with an "Error response" text;
\* only a KeyError inside the except block leaves the function.
RECURSIVE OpenAI_generate_chat_completion_from(_, _, _, _, _)
OpenAI_generate_chat_completion_from(k, key, messages, script, remote) ==
    LET lm      == last_message_content(messages)
        outcome == ScriptAt(script, Len(remote) + 1)
        rem     == IF key THEN Append(remote, outcome) ELSE remote
        failed  == IF key THEN outcome \notin {"ok", "empty"} ELSE lm.raised
    IN  IF ~failed
        THEN [raised |-> FALSE, remote |-> rem,
              value |-> IF ~key THEN "Demo response: I received your message '" \o lm.value \o "'."
                        ELSE IF outcome = "ok" THEN "openai: answer" ELSE ""]
        ELSE IF ~lm.raised
        THEN [raised |-> FALSE, remote |-> rem,
              value |-> "Error response: I encountered an issue processing your message '"
                        \o lm.value \o "'. Please try again later."]
        ELSE IF k >= openai_service_attempts
        THEN [raised |-> TRUE, remote |-> rem, value |-> NoneStr]    \* RetryError
        ELSE OpenAI_generate_chat_completion_from(k + 1, key, messages, script, rem)

\* MultiLLMService._try_openai_completion under @retry(stop_after_attempt(2)):
\* attempt k.  The exception that can arrive is tenacity's RetryError, whose
\* text names none of the quota keywords.
RECURSIVE try_openai_completion_from(_, _, _, _, _)
try_openai_completion_from(k, key, messages, script, remote) ==
    IF ~key
    THEN [kind |-> "return", value |-> NoneStr, attempts |-> k, remote |-> remote]
    ELSE LET r == OpenAI_generate_chat_completion_from(1, key, messages, script, remote)
         IN  IF ~r.raised
             THEN [kind |-> "return", value |-> r.value, attempts |-> k, remote |-> r.remote]
             ELSE IF k >= try_openai_completion_attempts
             THEN [kind |-> "raise", value |-> NoneStr, attempts |-> k, remote |-> r.remote]
             ELSE try_openai_completion_from(k + 1, key, messages, script, r.remote)

try_openai_completion(key, messages, script) ==
    try_openai_completion_from(1, key, messages, script, <<>>)

\* AnthropicService.generate_completion: every exception is raised again.
\* err: "quota" when the message names a quota keyword, else "other".
Anthropic_generate_completion(available, messages, outcome) ==
    IF ~available THEN [raised |-> TRUE, err |-> "other", value |-> NoneStr, remote |-> <<>>]
    ELSE IF \E i \in 1..Len(messages) : "role" \notin DOMAIN messages[i]
    THEN [raised |-> TRUE, err |-> "other", value |-> NoneStr, remote |-> <<>>]   \* KeyError
    ELSE IF outcome = "ok"
    THEN [raised |-> FALSE, err |-> "", value |-> "claude: answer", remote |-> <<outcome>>]
    ELSE IF outcome = "empty"
    THEN [raised |-> FALSE, err |-> "", value |-> "", remote |-> <<outcome>>]
    ELSE [raised |-> TRUE, err |-> IF outcome = "quota" THEN "quota" ELSE "other",
          value |-> NoneStr, remote |-> <<outcome>>]

\* MultiLLMService._try_anthropic_completion under @retry(stop_after_attempt(2)):
\* attempt k
RECURSIVE try_anthropic_completion_from(_, _, _, _, _)
try_anthropic_completion_from(k, available, messages, script, remote) ==
    LET r   == Anthropic_generate_completion(available, messages,
                                             ScriptAt(script, Len(remote) + 1))
        rem == remote \o r.remote
    IN  IF ~r.raised
        THEN [kind |-> "return", value |-> r.value, attempts |-> k, remote |-> rem]
        ELSE IF r.err = "quota"
        THEN [kind |-> "return", value |-> NoneStr, attempts |-> k, remote |-> rem]
        ELSE IF k >= try_anthropic_completion_attempts
        THEN [kind |-> "raise", value |-> NoneStr, attempts |-> k, remote |-> rem]
        ELSE try_anthropic_completion_from(k + 1, available, messages, script, rem)

try_anthropic_completion(available, messages, script) ==
    try_anthropic_completion_from(1, available, messages, script, <<>>)

\* for msg in reversed(messages): if msg["role"] == "user": ... break
RECURSIVE last_user_message(_, _)
last_user_message(messages, i) ==
    IF i = 0 THEN [raised |-> FALSE, value |-> ""]
    ELSE IF "role" \notin DOMAIN messages[i] THEN [raised |-> TRUE, value |-> ""]
    ELSE IF messages[i].role = "user"
    THEN IF "content" \in DOMAIN messages[i]
         THEN [raised |-> FALSE, value |-> messages[i].content]
         ELSE [raised |-> TRUE, value |-> ""]
    ELSE last_user_message(messages, i - 1)

\* for i, doc in enumerate(top_docs, 1): f"{i}. {doc_content}" and ""
RECURSIVE doc_lines(_, _)
doc_lines(docs, i) ==
    IF i > Len(docs) \/ i > top_docs_count THEN ""
    ELSE LET doc == docs[i]
             doc_content == IF Len(doc) > doc_excerpt_len
                            THEN SubSeq(doc, 1, doc_excerpt_len) \o "..." ELSE doc
         IN  ToString(i) \o ". " \o doc_content \o "\n\n" \o doc_lines(docs, i + 1)

\* Mutant: a missing user message is answered with an empty text.
generate_deterministic_response_blank(messages, docs) ==
    LET um == last_user_message(messages, Len(messages))
    IN  IF um.raised THEN [raised |-> TRUE, value |-> NoneStr]
        ELSE IF um.value = "" THEN [raised |-> FALSE, value |-> ""]
        ELSE [raised |-> FALSE,
              value |-> "I understand you're asking about: '" \o um.value \o "'"]

\* MultiLLMService._generate_deterministic_response
generate_deterministic_response(messages, docs) ==
    LET um == last_user_message(messages, Len(messages))
    IN  IF um.raised THEN [raised |-> TRUE, value |-> NoneStr]
        ELSE IF um.value = ""
        THEN [raised |-> FALSE,
              value |-> "I didn't receive a clear question. Could you please rephrase your request?"]
        ELSE IF Len(docs) > 0
        THEN [raised |-> FALSE,
              value |-> "Based on your question about '" \o um.value
                        \o "', I found the following relevant information:\n\n**Relevant Content:**\n"
                        \o doc_lines(docs, 1)
                        \o "**Summary:**\nThe above information relates to your question about "
                        \o um.value \o ". "]
        ELSE [raised |-> FALSE,
              value |-> "I understand you're asking about: '" \o um.value
                        \o "'\n\nI'm currently operating in limited mode due to AI service constraints."]

\* _create_cache_key
create_cache_key(messages, max_tokens, temperature) ==
    md5(<<messages, max_tokens, temperature>>)

\* generate_completion_with_fallback, lines 175-182: the deterministic stage
completion_deterministic_stage(cb, cache, k, messages, docs, events) ==
    LET d == generate_deterministic_response(messages, docs)
    IN  IF ~d.raised
        THEN ChainResult(FALSE, d.value, "deterministic", cb, DictPut(cache, k, d.value),
                         FALSE, Append(events, Stage("deterministic", "ok", 1, <<>>)))
        ELSE ChainResult(FALSE, ApologyText, "error_fallback", cb, cache, FALSE,
                         Append(events, Stage("deterministic", "failed", 1, <<>>)))

\* Mutant: a provider skipped because its breaker denies is counted as failed.
completion_anthropic_stage_count_skip(cb, cache, e, k, messages, docs, in, t, events) ==
    IF ~e.anthropic
    THEN completion_deterministic_stage(cb, cache, k, messages, docs,
             Append(events, Stage("anthropic", "skipped", 0, <<>>)))
    ELSE
    LET ce == LLM_can_execute(cb, "anthropic", t)
    IN  IF ce.raised
        THEN ChainResult(TRUE, NoneStr, "", cb, cache, FALSE, events)
        ELSE IF ~ce.ret
        THEN completion_deterministic_stage(
                 LLM_on_failure(ce.b, "anthropic", t), cache, k, messages, docs,
                 Append(events, Stage("anthropic", "skipped", 0, <<>>)))
        ELSE
        LET r == try_anthropic_completion(e.anthropic, messages, in.anthropic)
        IN  IF r.kind = "return" /\ TruthyStr(r.value)
            THEN ChainResult(FALSE, r.value, "anthropic", LLM_on_success(ce.b, "anthropic"),
                             DictPut(cache, k, r.value), FALSE,
                             Append(events, Stage("anthropic", "ok", r.attempts, r.remote)))
            ELSE completion_deterministic_stage(
                     LLM_on_failure(ce.b, "anthropic", t), cache, k, messages, docs,
                     Append(events, Stage("anthropic", "failed", r.attempts, r.remote)))

\* generate_completion_with_fallback, lines 159-173: the Anthropic stage
completion_anthropic_stage(cb, cache, e, k, messages, docs, in, t, events) ==
    IF ~e.anthropic
    THEN completion_deterministic_stage(cb, cache, k, messages, docs,
             Append(events, Stage("anthropic", "skipped", 0, <<>>)))
    ELSE
    LET ce == LLM_can_execute(cb, "anthropic", t)
    IN  IF ce.raised
        THEN ChainResult(TRUE, NoneStr, "", cb, cache, FALSE, events)
        ELSE IF ~ce.ret
        THEN completion_deterministic_stage(ce.b, cache, k, messages, docs,
                 Append(events, Stage("anthropic", "skipped", 0, <<>>)))
        ELSE
        LET r == try_anthropic_completion(e.anthropic, messages, in.anthropic)
        IN  IF r.kind = "return" /\ TruthyStr(r.value)
            THEN ChainResult(FALSE, r.value, "anthropic", LLM_on_success(ce.b, "anthropic"),
                             DictPut(cache, k, r.value), FALSE,
                             Append(events, Stage("anthropic", "ok", r.attempts, r.remote)))
            ELSE completion_deterministic_stage(
                     LLM_on_failure(ce.b, "anthropic", t), cache, k, messages, docs,
                     Append(events, Stage("anthropic", "failed", r.attempts, r.remote)))

\* MultiLLMService.generate_completion_with_fallback
generate_completion_with_fallback(cb, cache, e, messages, max_tokens, temperature, docs, in, t) ==
    LET k == create_cache_key(messages, max_tokens, temperature)
    IN  IF k \in DOMAIN cache
        THEN ChainResult(FALSE, cache[k], "cache", cb, cache, FALSE, <<>>)
        ELSE
        LET ce == LLM_can_execute(cb, "openai", t)
        IN  IF ce.raised
            THEN ChainResult(TRUE, NoneStr, "", cb, cache, FALSE, <<>>)
            ELSE IF ~ce.ret
            THEN completion_anthropic_stage(ce.b, cache, e, k, messages, docs, in, t,
                                            <<Stage("openai", "skipped", 0, <<>>)>>)
            ELSE
            LET r == try_openai_completion(e.api_key, messages, in.openai)
            IN  IF r.kind = "return" /\ TruthyStr(r.value)
                THEN ChainResult(FALSE, r.value, "openai", LLM_on_success(ce.b, "openai"),
                                 DictPut(cache, k, r.value), FALSE,
                                 <<Stage("openai", "ok", r.attempts, r.remote)>>)
                ELSE completion_anthropic_stage(
                         LLM_on_failure(ce.b, "openai", t), cache, e, k, messages, docs,
                         in, t, <<Stage("openai", "failed", r.attempts, r.remote)>>)

(***************************************************************************)
(* SpecChain: one service object (the embedding chain or the completion    *)
(* chain) called repeatedly while the clock advances.                      *)
(***************************************************************************)
Texts == {"alpha", "beta"}
RemoteErrors == {"quota", "transient"}
EmbOutcomes == {"ok"} \cup RemoteErrors
EmbScripts == {<<a>> : a \in EmbOutcomes}

MsgQuestion ==
    <<[role |-> "system", content |-> "You are a helpful assistant."],
      [role |-> "user", content |-> "what is alpha"]>>
MsgNoUser == <<[role |-> "system", content |-> "You are a helpful assistant."]>>
MsgMalformed == <<[role |-> "user", content |-> "what is beta"], [text |-> "no role"]>>
MsgLists == {MsgQuestion, MsgNoUser, MsgMalformed}

WellFormed(messages) ==
    \A i \in 1..Len(messages) : {"role", "content"} \subseteq DOMAIN messages[i]

DocLists == {<<>>, <<"alpha is the first letter">>}

\* retrieved_docs is read only to answer a user message with the documents;
\* the other requests are made without documents.
DocsFor(messages) == IF messages = MsgQuestion THEN DocLists ELSE {<<>>}

\* What the two remote APIs do during one call: the outcomes of the requests
\* made to each, in order.
LLMOutcomes ==
    {[openai |-> <<"ok">>, anthropic |-> <<"ok">>],
     [openai |-> <<"quota">>, anthropic |-> <<"ok">>],
     [openai |-> <<"transient">>, anthropic |-> <<"quota">>]}
    \cup {[openai |-> <<"empty">>, anthropic |-> a] :
             a \in {<<"ok">>, <<"empty">>, <<"quota">>, <<"transient">>,
                    <<"transient", "ok">>, <<"transient", "quota">>}}

\* The API rejects a message without a role: no request with one succeeds.
PossibleLLMOutcomes(messages) ==
    IF WellFormed(messages) THEN LLMOutcomes
    ELSE {o \in LLMOutcomes : o.openai[1] \in RemoteErrors}
\* What the local libraries do during one call: fit_transform raises or
\* returns a row of some length; the hash embedding raises (ok = FALSE) in
\* generate_embedding (hash1) and in the chain's last stage (hash2).
LocalOutcomes ==
    {[tfidf |-> [raises |-> FALSE, dim |-> 7], hash1 |-> TRUE, hash2 |-> TRUE],
     [tfidf |-> [raises |-> FALSE, dim |-> target_dim], hash1 |-> TRUE, hash2 |-> TRUE],
     [tfidf |-> [raises |-> TRUE, dim |-> 0], hash1 |-> TRUE, hash2 |-> TRUE],
     [tfidf |-> [raises |-> TRUE, dim |-> 0], hash1 |-> FALSE, hash2 |-> TRUE],
     [tfidf |-> [raises |-> TRUE, dim |-> 0], hash1 |-> FALSE, hash2 |-> FALSE]}

\* SpecChain leaves the stand-alone breaker untouched.
BreakerIdle ==
    /\ impl = "none" /\ prov = "-" /\ brk = EmptyDict /\ last = NoCall
    /\ streak = 0 /\ hoSucc = 0 /\ admits = 0

ChainInit ==
    /\ BreakerIdle
    /\ QueueIdle
    /\ FrontIdle
    /\ now = 0
    /\ chain \in {"embedding", "completion"}
    /\ env \in (IF chain = "embedding"
                THEN [api_key : BOOLEAN, sklearn : BOOLEAN, anthropic : {FALSE}]
                ELSE [api_key : BOOLEAN, sklearn : {FALSE}, anthropic : BOOLEAN])
    /\ svc_cb = (IF chain = "embedding" THEN Emb_init ELSE LLM_init)
    /\ svc_cache = EmptyDict
    /\ model_loaded = FALSE
    /\ call = NoChainCall

GenerateEmbedding ==
    /\ chain = "embedding"
    /\ svc_cb.failure_count < MaxFailureCount
    /\ \E text \in Texts, script \in EmbScripts, loc \in LocalOutcomes :
          LET in == [script |-> script, tfidf |-> loc.tfidf, hash1 |-> loc.hash1,
                     hash2 |-> loc.hash2]
              r  == generate_embedding_with_fallback(svc_cb, svc_cache, model_loaded,
                                                    env, text, in, now)
          IN  /\ svc_cb' = r.cb
              /\ svc_cache' = r.cache
              /\ model_loaded' = r.loaded
              /\ call' = [op |-> "embed", req |-> text, docs |-> <<>>, t |-> now,
                          raised |-> r.raised, result |-> r.result, tag |-> r.tag,
                          events |-> r.events,
                          pre |-> [cb |-> svc_cb, cache |-> svc_cache,
                                  loaded |-> model_loaded]]
    /\ UNCHANGED <<now, chain, env, otherThanChainVars>>

GenerateCompletion ==
    /\ chain = "completion"
    /\ \A p \in Providers : BreakerView("llm", svc_cb, p).failure_count < MaxFailureCount
    /\ \E messages \in MsgLists : \E docs \in DocsFor(messages) :
       \E o \in PossibleLLMOutcomes(messages) :
          LET r == generate_completion_with_fallback(svc_cb, svc_cache, env, messages,
                       default_max_tokens, default_temperature, docs, o, now)
          IN  /\ svc_cb' = r.cb
              /\ svc_cache' = r.cache
              /\ call' = [op |-> "complete", req |-> messages, docs |-> docs, t |-> now,
                          raised |-> r.raised, result |-> r.result, tag |-> r.tag,
                          events |-> r.events,
                          pre |-> [cb |-> svc_cb, cache |-> svc_cache,
                                  loaded |-> model_loaded]]
    /\ UNCHANGED <<now, chain, env, model_loaded, otherThanChainVars>>

\* get_circuit_breaker_status (it calls can_execute) / get_service_status
\* (it calls _get_provider_state for both providers)
GetStatus ==
    /\ svc_cb' = (IF chain = "embedding" THEN Emb_can_execute(svc_cb, now).b
                  ELSE LLM_get_provider_state(
                           LLM_get_provider_state(svc_cb, "openai"), "anthropic"))
    /\ call' = NoChainCall
    /\ UNCHANGED <<now, chain, env, svc_cache, model_loaded, otherThanChainVars>>

\* clear_cache
ClearCache ==
    /\ svc_cache' = EmptyDict
    /\ call' = NoChainCall
    /\ UNCHANGED <<now, chain, env, svc_cb, model_loaded, otherThanChainVars>>

ChainTick ==
    /\ now + ChainTickStep <= ChainMaxTicks * ChainTickStep
    /\ now' = now + ChainTickStep
    /\ call' = NoChainCall
    /\ UNCHANGED <<chain, env, svc_cb, svc_cache, model_loaded, otherThanChainVars>>

ChainNext == GenerateEmbedding \/ GenerateCompletion \/ GetStatus \/ ClearCache \/ ChainTick

SpecChain == ChainInit /\ [][ChainNext]_vars

(***************************************************************************)
(* Claims about the fallback chains (SpecChain).  call is the chain call   *)
(* that has just returned, so svc_cb and svc_cache are the state it left.  *)
(***************************************************************************)
StageRan(p, o) ==
    \E i \in 1..Len(call.events) : call.events[i].p = p /\ call.events[i].o = o

CallKey ==
    IF call.op = "embed" THEN md5(call.req)
    ELSE create_cache_key(call.req, default_max_tokens, default_temperature)

\* The provider's breaker before and after the call.
PreView(p) == BreakerView(IF call.op = "embed" THEN "embedding" ELSE "llm", call.pre.cb, p)
PostView(p) == BreakerView(IF call.op = "embed" THEN "embedding" ELSE "llm", svc_cb, p)

RemoteProviders == IF call.op = "embed" THEN {"openai"} ELSE Providers

ProviderOrder ==
    IF call.op = "embed" THEN <<"openai", "local_tfidf", "hash_fallback">>
    ELSE <<"openai", "anthropic", "deterministic">>

\* C1: whatever OpenAI does (success, quota error, transient error, no API
\* key) and whatever the breaker's state, generate_embedding_with_fallback
\* raises nothing and returns a vector of embedding_dimensions (1536) numbers
\* for the given text with a provider tag; it returns (None, "failed") exactly
\* when the hash stage itself raised.
C1_EmbeddingAlwaysReturned ==
    call.op = "embed" =>
        /\ ~call.raised
        /\ call.tag \in {"cache", "openai", "local_tfidf", "hash_fallback", "failed"}
        /\ (call.tag = "failed") = StageRan("hash_fallback", "failed")
        /\ IF call.tag = "failed" THEN call.result = NoneEmb
           ELSE /\ call.result # NoneEmb
                /\ call.result.dim = embedding_dimensions
                /\ call.result.of = call.req

\* C1 witness: the breaker denied OpenAI, the local stage failed and the hash
\* stage supplied the vector.
C1_Witness ==
    /\ call.op = "embed" /\ call.tag = "hash_fallback"
    /\ StageRan("openai", "skipped") /\ StageRan("local_tfidf", "failed")
    /\ call.result.dim = embedding_dimensions

\* C2: generate_completion_with_fallback never raises; it returns a text that
\* is not empty and a tag among cache, openai, anthropic, deterministic and
\* error_fallback, and the tag is error_fallback exactly when the
\* deterministic stage raised.
C2_CompletionAlwaysReturned ==
    call.op = "complete" =>
        /\ ~call.raised
        /\ call.result # "" /\ call.result # NoneStr
        /\ call.tag \in {"cache", "openai", "anthropic", "deterministic", "error_fallback"}
        /\ (call.tag = "error_fallback") = StageRan("deterministic", "failed")

\* C2 witness: both remote providers failed and the deterministic stage
\* answered.
C2_Witness ==
    /\ call.op = "complete" /\ call.tag = "deterministic"
    /\ StageRan("openai", "failed") /\ StageRan("anthropic", "failed")
    /\ TruthyStr(call.result)

\* C8: a call whose key is already in the cache returns the stored result
\* tagged "cache", invokes no provider and changes neither a breaker nor the
\* cache (nor the local vectorizer).
C8_CacheHitChangesNothing ==
    (call.op # "none" /\ CallKey \in DOMAIN call.pre.cache) =>
        /\ ~call.raised
        /\ call.tag = "cache"
        /\ call.result = call.pre.cache[CallKey]
        /\ call.events = <<>>
        /\ svc_cb = call.pre.cb
        /\ svc_cache = call.pre.cache
        /\ model_loaded = call.pre.loaded

\* C8 witness: a cache hit while the breaker was OPEN with its timeout
\* elapsed, where a can_execute() would have moved it to HALF_OPEN.
C8_Witness ==
    /\ call.op = "embed" /\ call.tag = "cache"
    /\ svc_cb.state = "OPEN"
    /\ call.t - svc_cb.last_failure_time > Emb_recovery_timeout

\* A provider's breaker denies execution at the time of the call.
Denies(p) ==
    /\ PreView(p).state = "OPEN"
    /\ call.t - PreView(p).last_failure_time
          <= RecoveryTimeout(IF call.op = "embed" THEN "embedding" ELSE "llm")

\* C9: in one chain call the stages run in the fixed order (embedding:
\* openai, local_tfidf, hash_fallback; completion: openai, anthropic,
\* deterministic), each only after every earlier one was skipped or failed
\* and none after one that succeeded, the tag names the stage that
\* succeeded; a remote provider whose breaker denies execution is not invoked
\* and its breaker is left as it was.
C9_FixedOrderAndSkip ==
    (call.op # "none" /\ ~call.raised) =>
        /\ Len(call.events) <= Len(ProviderOrder)
        /\ \A i \in 1..Len(call.events) :
              /\ call.events[i].p = ProviderOrder[i]
              /\ i < Len(call.events) => call.events[i].o \in {"skipped", "failed"}
              /\ call.events[i].o = "ok" => call.tag = call.events[i].p
              /\ call.events[i].o = "skipped" =>
                    (call.events[i].attempts = 0 /\ call.events[i].remote = <<>>)
        /\ call.tag \notin {"cache", "failed", "error_fallback"}
              => call.events[Len(call.events)].o = "ok"
        /\ \A p \in RemoteProviders :
              Denies(p) => /\ ~StageRan(p, "ok") /\ ~StageRan(p, "failed")
                           /\ PostView(p) = PreView(p)
        /\ StageRan("openai", "skipped") => Denies("openai")

\* C9 witness: a completion call in which the breaker denied OpenAI, Anthropic
\* was tried and failed, and the deterministic stage answered.
C9_Witness ==
    /\ call.op = "complete" /\ Denies("openai") /\ ~Denies("anthropic")
    /\ Len(call.events) = 3
    /\ call.events[1].o = "skipped" /\ call.events[2].o = "failed"
    /\ call.events[2].attempts > 0 /\ call.tag = "deterministic"

\* A request of the call to provider p that the remote API answered with a
\* quota/rate-limit error.
QuotaReported(i) ==
    \E j \in 1..Len(call.events[i].remote) : call.events[i].remote[j] = "quota"

\* C10: when a remote provider reports a quota/rate-limit error during a
\* chain call, the provider gets no further request in that call, its stage
\* counts as failed with exactly one failure recorded on its breaker, the
\* call raises nothing, and the chain goes on to the next provider.
C10_QuotaIsOneFailure ==
    call.op # "none" =>
        \A i \in 1..Len(call.events) :
            QuotaReported(i) =>
                LET ev == call.events[i]
                IN  /\ ev.remote[Len(ev.remote)] = "quota"
                    /\ \A j \in 1..(Len(ev.remote) - 1) : ev.remote[j] # "quota"
                    /\ ev.o = "failed"
                    /\ PostView(ev.p).failure_count = PreView(ev.p).failure_count + 1
                    /\ PostView(ev.p).last_failure_time = call.t
                    /\ ~call.raised
                    /\ i < Len(call.events)

\* Every request of stage i went to the remote API and was answered with a
\* transient (non-quota) error.
TransientOnly(i) ==
    /\ call.events[i].remote # <<>>
    /\ \A j \in 1..Len(call.events[i].remote) : call.events[i].remote[j] = "transient"

\* stop_after_attempt of the chain's wrapper around a remote provider
AttemptBound(p) ==
    IF call.op = "embed" THEN try_openai_embedding_attempts
    ELSE IF p = "openai" THEN try_openai_completion_attempts
    ELSE try_anthropic_completion_attempts

\* C11: a remote provider that answers with a transient (non-quota) error on
\* every attempt of a chain call is attempted a bounded number of times (at
\* most 3 by the embedding chain, at most 2 by the completion chain); the call
\* then records exactly one failure on that provider's breaker and goes on to
\* the next provider; a provider's stage runs at most once per call.
C11_TransientBoundedThenOneFailure ==
    call.op # "none" =>
        \A i \in 1..Len(call.events) :
            LET ev == call.events[i]
            IN  /\ ev.p \in RemoteProviders => ev.attempts <= AttemptBound(ev.p)
                /\ \A j \in 1..Len(call.events) : call.events[j].p = ev.p => j = i
                /\ TransientOnly(i) =>
                      /\ ev.o = "failed"
                      /\ PostView(ev.p).failure_count = PreView(ev.p).failure_count + 1
                      /\ PostView(ev.p).last_failure_time = call.t
                      /\ i < Len(call.events)

(***************************************************************************)
(* Part 4: services/queue_processor.py.  One uploaded document, its        *)
(* process_document_task and the retry_failed_embeddings task that a pass  *)
(* may enqueue.  A task that waits for its countdown starts when the       *)
(* clock reaches its eta.  The awaits of a pass are the steps of the       *)
(* model: start, one step per chunk, finish.                               *)
(***************************************************************************)
MaxChunks == 6        \* SpecQueue: chunks of the document's text, at most
MaxFaultChunks == 2   \* SpecFaults: chunks of the document's text, at most
MaxFaults == 1        \* SpecFaults: faults of the broker and the database, at most

process_max_retries == 5          \* self.retry(..., max_retries=5)
process_countdown_base == 60      \* countdown = 60 * (2 ** self.request.retries)
pending_quota_countdown == 300    \* retry_failed_embeddings.delay(document_id, countdown=300)
retry_default_countdown == 60     \* def retry_failed_embeddings(self, document_id, countdown: int = 60)
retry_countdown_factor == 2       \* retry_countdown = countdown * 2
max_countdown == 3600             \* max_countdown = 3600
retry_task_max_retries == 3       \* self.request.retries < 3
celery_default_max_retries == 3   \* self.retry(exc=exc, countdown=...): Task.max_retries

RECURSIVE Pow2(_)
Pow2(n) == IF n = 0 THEN 1 ELSE 2 * Pow2(n - 1)

Max(a, b) == IF a >= b THEN a ELSE b
Min(a, b) == IF a <= b THEN a ELSE b

\* _extract_text_robust: the mime types it has a branch for
ExtractableMimeTypes ==
    {"application/pdf",
     "application/vnd.openxmlformats-officedocument.wordprocessingml.document",
     "text/plain", "text/csv"}

\* Mime types of the documents exercised; the upload route accepts both.
MimeTypes == {"text/plain", "application/csv"}

\* _extract_text_robust
extract_text_robust(mime_type) ==
    IF mime_type \in ExtractableMimeTypes
    THEN [raised |-> FALSE, value |-> "extracted text"]
    ELSE [raised |-> TRUE,
          value |-> "Failed to extract text: Unsupported file type: " \o mime_type]

\* The chunks of the document's text: n chunks, with contents that repeat.
Chunks(n) == [i \in 1..n |-> [content |-> IF i % 2 = 1 THEN "alpha" ELSE "beta"]]

\* Chunk(document_id, chunk_index, content, ..., embedding)
ChunkRow(chunk_index, content, embedding) ==
    [chunk_index |-> chunk_index, content |-> content, embedding |-> embedding]

\* _store_chunk_without_embedding
store_chunk_without_embedding(added, chunk_index, chunk) ==
    Append(added, ChunkRow(chunk_index, chunk.content, NoneEmb))

\* What one loop iteration leaves: the queue breaker, the pass's locals, the
\* pass's embedding service, and the chain call it made (if any).
StepResult(qb, ps, cb, cache, loaded, c) ==
    [qcb |-> qb, pass |-> ps, cb |-> cb, cache |-> cache, loaded |-> loaded, call |-> c]

ChainCallRecord(text, t, r, cb, cache, loaded) ==
    [op |-> "embed", req |-> text, docs |-> <<>>, t |-> t,
     raised |-> r.raised, result |-> r.result, tag |-> r.tag, events |-> r.events,
     pre |-> [cb |-> cb, cache |-> cache, loaded |-> loaded]]

\* No chain call was made for the chunk.
NoChainRun == [events |-> <<>>]

\* What the pass remembers of one chunk: was it denied by the queue breaker,
\* did it get a vector, and how OpenAI answered the requests made for it.
ChunkLog(denied, vector, r) ==
    [denied |-> denied, vector |-> vector,
     remote |-> IF denied \/ r.events = <<>> THEN <<>> ELSE r.events[1].remote]

\* Mutant: a chunk denied by the breaker is recorded as a breaker failure.
process_chunk_count_denied(qb, ps, cb, cache, loaded, c, e, chunk, in, t) ==
    LET ce == Q_can_execute(qb, t)
        i  == ps.i
    IN  IF ce.raised \/ ~ce.ret
        THEN StepResult(Q_on_failure(ce.b, t),
                 [ps EXCEPT !.i = i + 1, !.failed = @ + 1,
                            !.added = store_chunk_without_embedding(@, i, chunk),
                            !.log = Append(@, ChunkLog(TRUE, FALSE, NoChainRun))],
                 cb, cache, loaded, c)
        ELSE
        LET r == generate_embedding_with_fallback(cb, cache, loaded, e, chunk.content, in, t)
            cr == ChainCallRecord(chunk.content, t, r, cb, cache, loaded)
        IN  IF ~r.raised /\ TruthyEmb(r.result)
            THEN StepResult(Q_on_success(ce.b),
                     [ps EXCEPT !.i = i + 1, !.created = @ + 1,
                                !.added = Append(@, ChunkRow(i, chunk.content, r.result)),
                                !.log = Append(@, ChunkLog(FALSE, TRUE, r))],
                     r.cb, r.cache, r.loaded, cr)
            ELSE StepResult(Q_on_failure(ce.b, t),
                     [ps EXCEPT !.i = i + 1, !.failed = @ + 1,
                                !.added = store_chunk_without_embedding(@, i, chunk),
                                !.log = Append(@, ChunkLog(FALSE, FALSE, r))],
                     r.cb, r.cache, r.loaded, cr)

\* Mutant: a chunk whose attempt gave no vector is counted but not stored.
process_chunk_drop_failed(qb, ps, cb, cache, loaded, c, e, chunk, in, t) ==
    LET ce == Q_can_execute(qb, t)
        i  == ps.i
    IN  IF ce.raised
        THEN StepResult(Q_on_failure(ce.b, t),
                 [ps EXCEPT !.i = i + 1, !.failed = @ + 1,
                            !.added = store_chunk_without_embedding(@, i, chunk),
                            !.log = Append(@, ChunkLog(FALSE, FALSE, NoChainRun))],
                 cb, cache, loaded, c)
        ELSE IF ~ce.ret
        THEN StepResult(ce.b,
                 [ps EXCEPT !.i = i + 1, !.failed = @ + 1,
                            !.added = store_chunk_without_embedding(@, i, chunk),
                            !.log = Append(@, ChunkLog(TRUE, FALSE, NoChainRun))],
                 cb, cache, loaded, c)
        ELSE
        LET r == generate_embedding_with_fallback(cb, cache, loaded, e, chunk.content, in, t)
            cr == ChainCallRecord(chunk.content, t, r, cb, cache, loaded)
        IN  IF ~r.raised /\ TruthyEmb(r.result)
            THEN StepResult(Q_on_success(ce.b),
                     [ps EXCEPT !.i = i + 1, !.created = @ + 1,
                                !.added = Append(@, ChunkRow(i, chunk.content, r.result)),
                                !.log = Append(@, ChunkLog(FALSE, TRUE, r))],
                     r.cb, r.cache, r.loaded, cr)
            ELSE StepResult(Q_on_failure(ce.b, t),
                     [ps EXCEPT !.i = i + 1, !.failed = @ + 1,
                                !.log = Append(@, ChunkLog(FALSE, FALSE, r))],
                     r.cb, r.cache, r.loaded, cr)

\* _process_document_async, lines 181-226: one iteration of the chunk loop
\* (ps.i is the index i of enumerate(chunks)).
process_chunk(qb, ps, cb, cache, loaded, c, e, chunk, in, t) ==
    LET ce == Q_can_execute(qb, t)
        i  == ps.i
    IN  IF ce.raised
        THEN \* except Exception (lines 219-226)
             StepResult(Q_on_failure(ce.b, t),
                 [ps EXCEPT !.i = i + 1, !.failed = @ + 1,
                            !.added = store_chunk_without_embedding(@, i, chunk),
                            !.log = Append(@, ChunkLog(FALSE, FALSE, NoChainRun))],
                 cb, cache, loaded, c)
        ELSE IF ~ce.ret
        THEN \* lines 184-189
             StepResult(ce.b,
                 [ps EXCEPT !.i = i + 1, !.failed = @ + 1,
                            !.added = store_chunk_without_embedding(@, i, chunk),
                            !.log = Append(@, ChunkLog(TRUE, FALSE, NoChainRun))],
                 cb, cache, loaded, c)
        ELSE
        LET r == generate_embedding_with_fallback(cb, cache, loaded, e, chunk.content, in, t)
            cr == ChainCallRecord(chunk.content, t, r, cb, cache, loaded)
        IN  IF ~r.raised /\ TruthyEmb(r.result)
            THEN \* lines 196-212
                 StepResult(Q_on_success(ce.b),
                     [ps EXCEPT !.i = i + 1, !.created = @ + 1,
                                !.added = Append(@, ChunkRow(i, chunk.content, r.result)),
                                !.log = Append(@, ChunkLog(FALSE, TRUE, r))],
                     r.cb, r.cache, r.loaded, cr)
            ELSE \* lines 213-217, and 219-226 when the chain raised
                 StepResult(Q_on_failure(ce.b, t),
                     [ps EXCEPT !.i = i + 1, !.failed = @ + 1,
                                !.added = store_chunk_without_embedding(@, i, chunk),
                                !.log = Append(@, ChunkLog(FALSE, FALSE, r))],
                     r.cb, r.cache, r.loaded, cr)

\* Mutant: any failed chunk makes the document partial.
final_status_partial_any(chunks_created, chunks_failed) ==
    IF chunks_created > 0 /\ chunks_failed = 0
    THEN [status |-> "ready", enqueue |-> FALSE, countdown |-> 0, message |-> ""]
    ELSE IF chunks_failed > 0
    THEN [status |-> "partial", enqueue |-> TRUE, countdown |-> retry_default_countdown,
          message |-> "partial"]
    ELSE [status |-> "indexing_pending_quota", enqueue |-> TRUE,
          countdown |-> pending_quota_countdown, message |-> "pending"]

\* _process_document_async, lines 230-243: the status after the commit, its
\* message, and the countdown argument of the retry task it enqueues.
final_status(chunks_created, chunks_failed) ==
    IF chunks_created > 0 /\ chunks_failed = 0
    THEN [status |-> "ready", enqueue |-> FALSE, countdown |-> 0,
          message |-> "Document processed successfully with "
                      \o ToString(chunks_created) \o " chunks"]
    ELSE IF chunks_created > 0 /\ chunks_failed > 0
    THEN [status |-> "partial", enqueue |-> TRUE, countdown |-> retry_default_countdown,
          message |-> "Document partially processed: " \o ToString(chunks_created)
                      \o " chunks ready, " \o ToString(chunks_failed) \o " pending retry"]
    ELSE [status |-> "indexing_pending_quota", enqueue |-> TRUE,
          countdown |-> pending_quota_countdown,
          message |-> "Document uploaded but indexing failed. "
                      \o ToString(chunks_failed) \o " chunks pending retry"]

\* task.delay(document_id, countdown=c): Celery's delay() takes the task's own
\* arguments only, so the task is queued for immediate execution with c as
\* the value of its parameter countdown.
task_delay(c, t) ==
    [NoTask EXCEPT !.state = "queued", !.eta = t, !.countdown = c]

\* self.retry(exc=exc, countdown=c, max_retries=m): Celery re-queues the task
\* with the same arguments and request.retries + 1 to run after c seconds,
\* or re-raises exc when request.retries + 1 exceeds m.  (The exception that
\* leaves process_document_task then reaches autoretry_for, whose own retry()
\* finds the limit exceeded as well.)
celery_retry(task, c, m, t) ==
    IF task.retries + 1 > m
    THEN [task EXCEPT !.state = "abandoned"]
    ELSE [task EXCEPT !.state = "queued", !.retries = @ + 1, !.eta = t + c,
                      !.delays = Append(@, c)]

\* Mutant: the handler retries without a ceiling on the number of retries.
process_task_on_exception_no_ceiling(task, d, t) ==
    LET countdown == process_countdown_base * Pow2(task.retries)
        k == task.retries + 1
    IN  [document |-> [d EXCEPT !.status = "indexing_pending_retry_attempt_" \o ToString(k),
                                !.error_message = "Retry " \o ToString(k) \o "/5: " \o task.exc],
         task |-> celery_retry(task, countdown, task.retries + 1, t)]

\* process_document_task, lines 122-141: the handler of an exception of the
\* pass.
process_task_on_exception(task, d, t) ==
    LET countdown == process_countdown_base * Pow2(task.retries)
        k == task.retries + 1
    IN  [document |-> [d EXCEPT !.status = "indexing_pending_retry_attempt_" \o ToString(k),
                                !.error_message = "Retry " \o ToString(k) \o "/5: " \o task.exc],
         task |-> celery_retry(task, countdown, process_max_retries, t)]

StepRecord(op, t) ==
    [op |-> op, t |-> t, qcb |-> qcb, pass |-> pass, retries |-> ptask.retries,
     svc |-> [cb |-> svc_cb, cache |-> svc_cache, call |-> call],
     document |-> document, rows |-> rows, ptask |-> ptask, rtask |-> rtask]

\* ResilientEmbeddingService(): every pass builds its own service object.
NewEmbeddingService ==
    /\ svc_cb' = Emb_init
    /\ svc_cache' = EmptyDict
    /\ model_loaded' = FALSE
    /\ call' = NoChainCall

\* What the libraries do for one chunk.  With an API key the OpenAI stage
\* always supplies the result, so the local libraries are not reached.
QueueChainInputs ==
    IF env.api_key
    THEN {[script |-> sc, tfidf |-> [raises |-> TRUE, dim |-> 0], hash1 |-> TRUE,
           hash2 |-> TRUE] : sc \in EmbScripts}
    ELSE {[script |-> <<"ok">>, tfidf |-> loc.tfidf, hash1 |-> loc.hash1,
           hash2 |-> loc.hash2] : loc \in LocalOutcomes}

\* The worker runs one task at a time: a task starts when none is running.
WorkerFree == ptask.state # "running" /\ rtask.state # "running"

\* Faults of the broker and of the database met so far (redeliveries, commits
\* and calls that raised after the pass's loop).
Faults == ptask.faults

\* The upload route has stored the document as "queued" and called
\* process_document_task.delay(document.id, file_content).
\* _chunk_text_robust returns at least one chunk for every text (the empty
\* text included), so the text of a document has one chunk or more.
QueueInit ==
    /\ BreakerIdle
    /\ FrontIdle
    /\ now = 0
    /\ chain = "queue"
    /\ env \in [api_key : BOOLEAN, sklearn : BOOLEAN, anthropic : {FALSE}]
    /\ svc_cb = Emb_init
    /\ svc_cache = EmptyDict
    /\ model_loaded = FALSE
    /\ call = NoChainCall
    /\ document \in [mime : MimeTypes, n : 1..MaxChunks, status : {"queued"},
                     error_message : {""}]
    /\ rows = <<>>
    /\ qcb = Q_init
    /\ ptask = task_delay(0, 0)
    /\ pass = NoPass
    /\ rtask = NoTask
    /\ qlast = NoStep

\* process_document_task starts: lines 103-175, up to the chunk loop.
ProcessStart ==
    /\ ptask.state = "queued"
    /\ WorkerFree
    /\ ~extract_text_robust(document.mime).raised
    /\ now' = Max(now, ptask.eta)
    /\ NewEmbeddingService
    /\ document' = [document EXCEPT !.status =
                       IF ptask.retries = 0 THEN "processing"
                       ELSE "processing_retry_" \o ToString(ptask.retries)]
    /\ pass' = [NoPass EXCEPT !.kind = "process", !.base = rows]
    /\ ptask' = [ptask EXCEPT !.state = "running", !.execs = @ + 1]
    /\ qlast' = StepRecord("start", now')
    /\ UNCHANGED <<chain, env, rows, qcb, rtask, otherThanQueueVars>>

\* process_document_task starts and _extract_text_robust raises: lines
\* 103-165, then the handler of _process_document_async, lines 261-271.
ProcessAbort ==
    LET x == extract_text_robust(document.mime)
    IN  /\ ptask.state = "queued"
        /\ WorkerFree
        /\ x.raised
        /\ now' = Max(now, ptask.eta)
        /\ NewEmbeddingService
        /\ document' = [document EXCEPT !.status = "failed", !.error_message = x.value]
        /\ ptask' = [ptask EXCEPT !.state = "raised", !.execs = @ + 1, !.exc = x.value]
        /\ qlast' = StepRecord("abort", now')
        /\ UNCHANGED <<chain, env, rows, qcb, pass, rtask, otherThanQueueVars>>

\* process_document_task, lines 122-141
TaskRetry ==
    LET r == process_task_on_exception(ptask, document, now)
    IN  /\ ptask.state = "raised"
        /\ document' = r.document
        /\ ptask' = r.task
        /\ qlast' = StepRecord("task_retry", now)
        /\ UNCHANGED <<now, chainVars, rows, qcb, pass, rtask, otherThanQueueVars>>

\* _process_document_async, lines 181-226: one chunk
ProcessChunk ==
    /\ ptask.state = "running"
    /\ pass.i < document.n
    /\ \E in \in QueueChainInputs :
          LET r == process_chunk(qcb, pass, svc_cb, svc_cache, model_loaded, call, env,
                                 Chunks(document.n)[pass.i + 1], in, now)
          IN  /\ qcb' = r.qcb
              /\ pass' = r.pass
              /\ svc_cb' = r.cb
              /\ svc_cache' = r.cache
              /\ model_loaded' = r.loaded
              /\ call' = r.call
    /\ qlast' = StepRecord("chunk", now)
    /\ UNCHANGED <<now, chain, env, document, rows, ptask, rtask, otherThanQueueVars>>

\* _process_document_async, lines 228-259: commit, final status, retry task
ProcessFinish ==
    LET f == final_status(pass.created, pass.failed)
    IN  /\ ptask.state = "running"
        /\ pass.i = document.n
        /\ rows' = rows \o pass.added
        /\ document' = [document EXCEPT !.status = f.status,
                           !.error_message = IF f.status # "ready" THEN f.message ELSE @]
        /\ rtask' = (IF f.enqueue THEN task_delay(f.countdown, now) ELSE rtask)
        /\ ptask' = [ptask EXCEPT !.state = "done"]
        /\ qlast' = StepRecord("finish", now)
        /\ UNCHANGED <<now, chainVars, qcb, pass, otherThanQueueVars>>

\* Mutant: the select has no condition on the embedding.
null_rows_all(rs, j) == [k \in 1..(Len(rs) - j + 1) |-> k + j - 1]

\* _retry_embeddings_async, lines 323-330: positions of the rows selected by
\* Chunk.embedding.is_(None)
RECURSIVE null_rows(_, _)
null_rows(rs, j) ==
    IF j > Len(rs) THEN <<>>
    ELSE IF rs[j].embedding = NoneEmb THEN <<j>> \o null_rows(rs, j + 1)
    ELSE null_rows(rs, j + 1)

\* _retry_embeddings_async, lines 339-362: one iteration of the retry loop
\* (created is retry_success, failed is retry_failed, added holds the rows
\* whose embedding was assigned, keyed by their position).
\* Mutant: a chunk denied by the breaker is skipped and the loop goes on.
retry_chunk_continue(qb, ps, cb, cache, loaded, c, e, rs, in, t) ==
    LET ce == Q_can_execute(qb, t)
        j  == ps.todo[ps.i + 1]
    IN  IF ce.raised
        THEN StepResult(Q_on_failure(ce.b, t),
                 [ps EXCEPT !.i = @ + 1, !.failed = @ + 1,
                            !.log = Append(@, ChunkLog(FALSE, FALSE, NoChainRun))],
                 cb, cache, loaded, c)
        ELSE IF ~ce.ret
        THEN StepResult(ce.b, [ps EXCEPT !.i = @ + 1, !.failed = @ + 1,
                                         !.log = Append(@, ChunkLog(TRUE, FALSE, NoChainRun))],
                        cb, cache, loaded, c)
        ELSE
        LET r == generate_embedding_with_fallback(cb, cache, loaded, e, rs[j].content, in, t)
            cr == ChainCallRecord(rs[j].content, t, r, cb, cache, loaded)
        IN  IF ~r.raised /\ TruthyEmb(r.result)
            THEN StepResult(Q_on_success(ce.b),
                     [ps EXCEPT !.i = @ + 1, !.created = @ + 1,
                                !.added = Append(@, ChunkRow(j, rs[j].content, r.result)),
                                !.log = Append(@, ChunkLog(FALSE, TRUE, r))],
                     r.cb, r.cache, r.loaded, cr)
            ELSE StepResult(Q_on_failure(ce.b, t),
                     [ps EXCEPT !.i = @ + 1, !.failed = @ + 1,
                                !.log = Append(@, ChunkLog(FALSE, FALSE, r))],
                     r.cb, r.cache, r.loaded, cr)

retry_chunk(qb, ps, cb, cache, loaded, c, e, rs, in, t) ==
    LET ce == Q_can_execute(qb, t)
        j  == ps.todo[ps.i + 1]
    IN  IF ce.raised
        THEN StepResult(Q_on_failure(ce.b, t),
                 [ps EXCEPT !.i = @ + 1, !.failed = @ + 1,
                            !.log = Append(@, ChunkLog(FALSE, FALSE, NoChainRun))],
                 cb, cache, loaded, c)
        ELSE IF ~ce.ret
        THEN \* break
             StepResult(ce.b, [ps EXCEPT !.stopped = TRUE], cb, cache, loaded, c)
        ELSE
        LET r == generate_embedding_with_fallback(cb, cache, loaded, e, rs[j].content, in, t)
            cr == ChainCallRecord(rs[j].content, t, r, cb, cache, loaded)
        IN  IF ~r.raised /\ TruthyEmb(r.result)
            THEN StepResult(Q_on_success(ce.b),
                     [ps EXCEPT !.i = @ + 1, !.created = @ + 1,
                                !.added = Append(@, ChunkRow(j, rs[j].content, r.result)),
                                !.log = Append(@, ChunkLog(FALSE, TRUE, r))],
                     r.cb, r.cache, r.loaded, cr)
            ELSE StepResult(Q_on_failure(ce.b, t),
                     [ps EXCEPT !.i = @ + 1, !.failed = @ + 1,
                                !.log = Append(@, ChunkLog(FALSE, FALSE, r))],
                     r.cb, r.cache, r.loaded, cr)

\* await db.commit() of the retry pass: the assigned embeddings are stored.
commit_retry(rs, added) ==
    [j \in DOMAIN rs |->
        IF \E k \in 1..Len(added) : added[k].chunk_index = j
        THEN [rs[j] EXCEPT !.embedding =
                 added[CHOOSE k \in 1..Len(added) : added[k].chunk_index = j].embedding]
        ELSE rs[j]]

\* _retry_embeddings_async, lines 366-374
retry_status(d, retry_success, retry_failed) ==
    IF retry_success > 0 /\ retry_failed = 0
    THEN [d EXCEPT !.status = "ready",
                   !.error_message = "All chunks processed successfully"]
    ELSE IF retry_success > 0
    THEN [d EXCEPT !.status = "partial",
                   !.error_message = "Retry completed: " \o ToString(retry_success)
                       \o " successful, " \o ToString(retry_failed) \o " still pending"]
    ELSE d

\* Mutant: the handler gives up one retry early.
retry_task_on_exception_early(task, d, t) ==
    LET retry_countdown == task.countdown * retry_countdown_factor
    IN  IF retry_countdown <= max_countdown /\ task.retries < retry_task_max_retries - 1
        THEN [document |-> d,
              task |-> celery_retry(task, Min(retry_countdown, max_countdown),
                                    celery_default_max_retries, t)]
        ELSE [document |-> [d EXCEPT !.status = "embedding_failed",
                  !.error_message = "Maximum retry attempts exceeded for embedding generation"],
              task |-> [task EXCEPT !.state = "abandoned"]]

\* retry_failed_embeddings, lines 288-311: the handler of an exception of
\* the retry pass.
retry_task_on_exception(task, d, t) ==
    LET retry_countdown == task.countdown * retry_countdown_factor
    IN  IF retry_countdown <= max_countdown /\ task.retries < retry_task_max_retries
        THEN [document |-> d,
              task |-> celery_retry(task, Min(retry_countdown, max_countdown),
                                    celery_default_max_retries, t)]
        ELSE [document |-> [d EXCEPT !.status = "embedding_failed",
                  !.error_message = "Maximum retry attempts exceeded for embedding generation"],
              task |-> [task EXCEPT !.state = "abandoned"]]

\* retry_failed_embeddings starts: lines 274-338, up to the retry loop.
RetryStart ==
    LET todo == null_rows(rows, 1)
    IN  /\ rtask.state = "queued"
        /\ WorkerFree
        /\ now' = Max(now, rtask.eta)
        /\ NewEmbeddingService
        /\ pass' = [NoPass EXCEPT !.kind = "retry", !.todo = todo, !.base = rows]
        /\ rtask' = [rtask EXCEPT !.state = IF todo = <<>> THEN "done" ELSE "running",
                                  !.execs = @ + 1]
        /\ qlast' = StepRecord("retry_start", now')
        /\ UNCHANGED <<chain, env, document, rows, qcb, ptask, otherThanQueueVars>>

\* retry_failed_embeddings starts and the database raises on the select of
\* line 323: the handler of lines 288-311 runs.
RetryRaise ==
    LET r == retry_task_on_exception(
                 [rtask EXCEPT !.execs = @ + 1, !.exc = "database error"],
                 document, Max(now, rtask.eta))
    IN  /\ rtask.state = "queued"
        /\ WorkerFree
        /\ now' = Max(now, rtask.eta)
        /\ NewEmbeddingService
        /\ document' = r.document
        /\ rtask' = r.task
        /\ pass' = [NoPass EXCEPT !.kind = "retry", !.base = rows]
        /\ qlast' = StepRecord("retry_raise", now')
        /\ UNCHANGED <<chain, env, rows, qcb, ptask, otherThanQueueVars>>

\* _retry_embeddings_async, lines 339-362: one chunk
RetryChunk ==
    /\ rtask.state = "running"
    /\ ~pass.stopped
    /\ pass.i < Len(pass.todo)
    /\ \E in \in QueueChainInputs :
          LET r == retry_chunk(qcb, pass, svc_cb, svc_cache, model_loaded, call, env,
                               rows, in, now)
          IN  /\ qcb' = r.qcb
              /\ pass' = r.pass
              /\ svc_cb' = r.cb
              /\ svc_cache' = r.cache
              /\ model_loaded' = r.loaded
              /\ call' = r.call
    /\ qlast' = StepRecord("retry_chunk", now)
    /\ UNCHANGED <<now, chain, env, document, rows, ptask, rtask, otherThanQueueVars>>

\* _retry_embeddings_async, lines 364-380: commit, status, return
RetryFinish ==
    /\ rtask.state = "running"
    /\ pass.stopped \/ pass.i = Len(pass.todo)
    /\ rows' = commit_retry(rows, pass.added)
    /\ document' = retry_status(document, pass.created, pass.failed)
    /\ rtask' = [rtask EXCEPT !.state = "done"]
    /\ qlast' = StepRecord("retry_finish", now)
    /\ UNCHANGED <<now, chainVars, qcb, ptask, pass, otherThanQueueVars>>

\* Mutant: a commit that raises has stored the first of its writes.
commit_raises_partial(before, after, landed) ==
    IF landed THEN after
    ELSE IF Len(after) > Len(before) THEN SubSeq(after, 1, Len(before) + 1)
    ELSE LET changed == {j \in 1..Len(after) : after[j] # before[j]}
         IN  [j \in 1..Len(before) |->
                 IF changed # {} /\ j = CHOOSE m \in changed : \A o \in changed : m <= o
                 THEN after[j] ELSE before[j]]

\* await db.commit() raises.  The transaction is the database's: either none
\* of its writes is stored, or (the acknowledgement of COMMIT was lost) all
\* of them are.
commit_raises(before, after, landed) == IF landed THEN after ELSE before

\* _process_document_async, line 228 raises: the session's transaction is
\* over, so the handler of lines 261-271 has no pending chunk to commit; its
\* update_document stores "failed" if the database answers again (handled).
ProcessCommitRaises ==
    /\ ptask.state = "running"
    /\ pass.i = document.n
    /\ pass.added # <<>>
    /\ Faults < MaxFaults
    /\ \E landed \in BOOLEAN :
          rows' = commit_raises(rows, rows \o pass.added, landed)
    /\ \E handled \in BOOLEAN :
          document' = IF handled
                      THEN [document EXCEPT !.status = "failed",
                                            !.error_message = "commit failed"]
                      ELSE document
    /\ ptask' = [ptask EXCEPT !.state = "raised", !.exc = "commit failed",
                              !.faults = @ + 1]
    /\ qlast' = StepRecord("commit_raises", now)
    /\ UNCHANGED <<now, chainVars, qcb, pass, rtask, otherThanQueueVars>>

\* _process_document_async, lines 228-271: the chunks are committed, then
\* retry_failed_embeddings.delay (lines 240, 245: the broker) or
\* update_document (line 248: the database) raises; the handler of lines
\* 261-271 stores "failed" and re-raises.
ProcessFinishRaises ==
    LET f == final_status(pass.created, pass.failed)
    IN  /\ ptask.state = "running"
        /\ pass.i = document.n
        /\ Faults < MaxFaults
        /\ \E at \in {"delay", "update_document"} :
              /\ at = "delay" => f.enqueue
              /\ rtask' = (IF at = "update_document" /\ f.enqueue
                           THEN task_delay(f.countdown, now) ELSE rtask)
              /\ document' = [document EXCEPT !.status = "failed",
                                              !.error_message = at \o " failed"]
              /\ ptask' = [ptask EXCEPT !.state = "raised", !.exc = at \o " failed",
                                        !.faults = @ + 1]
        /\ rows' = rows \o pass.added
        /\ qlast' = StepRecord("finish_raises", now)
        /\ UNCHANGED <<now, chainVars, qcb, pass, otherThanQueueVars>>

\* task_acks_late: the message of process_document_task is acknowledged after
\* the task returns; a worker lost between the return and the acknowledgement
\* leaves the message to be delivered again, with the same request.retries.
RedeliverProcess ==
    /\ ptask.state = "done"
    /\ WorkerFree
    /\ Faults < MaxFaults
    /\ ptask' = [ptask EXCEPT !.state = "queued", !.redelivered = @ + 1,
                              !.faults = @ + 1]
    /\ qlast' = StepRecord("redeliver", now)
    /\ UNCHANGED <<now, chainVars, document, rows, qcb, pass, rtask, otherThanQueueVars>>

\* task_acks_late, for retry_failed_embeddings.
RedeliverRetry ==
    /\ rtask.state = "done"
    /\ WorkerFree
    /\ Faults < MaxFaults
    /\ rtask' = [rtask EXCEPT !.state = "queued", !.redelivered = @ + 1]
    /\ ptask' = [ptask EXCEPT !.faults = @ + 1]
    /\ qlast' = StepRecord("retry_redeliver", now)
    /\ UNCHANGED <<now, chainVars, document, rows, qcb, pass, otherThanQueueVars>>

\* _retry_embeddings_async, line 364 raises: the exception leaves the pass and
\* reaches the handler of retry_failed_embeddings, lines 288-311.
RetryCommitRaises ==
    LET r == retry_task_on_exception([rtask EXCEPT !.exc = "commit failed"], document, now)
    IN  /\ rtask.state = "running"
        /\ pass.stopped \/ pass.i = Len(pass.todo)
        /\ pass.added # <<>>
        /\ Faults < MaxFaults
        /\ \E landed \in BOOLEAN :
              rows' = commit_raises(rows, commit_retry(rows, pass.added), landed)
        /\ document' = r.document
        /\ rtask' = r.task
        /\ ptask' = [ptask EXCEPT !.faults = @ + 1]
        /\ qlast' = StepRecord("retry_commit_raises", now)
        /\ UNCHANGED <<now, chainVars, qcb, pass, otherThanQueueVars>>

QueueNext ==
    \/ ProcessStart \/ ProcessAbort \/ TaskRetry \/ ProcessChunk \/ ProcessFinish
    \/ RetryStart \/ RetryRaise \/ RetryChunk \/ RetryFinish

\* The queue with a broker and a database that can fail: the same tasks, a
\* shorter document.
FaultsInit == QueueInit /\ document.n <= MaxFaultChunks

FaultsNext ==
    \/ ProcessStart \/ ProcessAbort \/ TaskRetry \/ ProcessChunk \/ ProcessFinish
    \/ RetryStart \/ RetryRaise \/ RetryChunk \/ RetryFinish
    \/ ProcessCommitRaises \/ ProcessFinishRaises \/ RedeliverProcess
    \/ RedeliverRetry \/ RetryCommitRaises

SpecFaults == FaultsInit /\ [][FaultsNext]_vars

SpecQueue == QueueInit /\ [][QueueNext]_vars

(***************************************************************************)
(* Claims about the document queue (SpecQueue).  qlast is the step that    *)
(* has just been taken, with the state before it.                          *)
(***************************************************************************)

\* C12: after a pass of _process_document_async has committed its chunks the
\* status is ready if chunks_failed = 0 and chunks_created > 0; partial, with
\* a retry task queued to run at once, if both counts are positive; and
\* indexing_pending_quota, with a retry task queued to run 300 s later, if
\* chunks_created = 0.
C12_StatusAndRetryAfterCommit ==
    qlast.op = "finish" =>
        /\ (pass.failed = 0 /\ pass.created > 0) => document.status = "ready"
        /\ (pass.failed > 0 /\ pass.created > 0) =>
              /\ document.status = "partial"
              /\ rtask.state = "queued" /\ rtask.eta = qlast.t
        /\ pass.created = 0 =>
              /\ document.status = "indexing_pending_quota"
              /\ rtask.state = "queued" /\ rtask.eta = qlast.t + 300

\* C13: in a processing pass every chunk handled so far has been added
\* exactly once, in order, with its content, either with a vector (counted in
\* chunks_created) or with embedding = null (counted in chunks_failed); at the
\* commit the two counts add up to the number of chunks and the committed
\* rows are these chunks.
C13_EveryChunkStoredOnce ==
    /\ pass.kind = "process" =>
          /\ Len(pass.added) = pass.i
          /\ pass.created + pass.failed = pass.i
          /\ \A k \in 1..Len(pass.added) :
                /\ pass.added[k].chunk_index = k - 1
                /\ pass.added[k].content = Chunks(document.n)[k].content
          /\ pass.created =
                Cardinality({k \in 1..Len(pass.added) : pass.added[k].embedding # NoneEmb})
          /\ pass.failed =
                Cardinality({k \in 1..Len(pass.added) : pass.added[k].embedding = NoneEmb})
    /\ qlast.op = "finish" =>
          /\ pass.created + pass.failed = document.n
          /\ Len(rows) = document.n
          /\ rows = pass.added

\* C13 witness: a pass committed both chunks with a vector and chunks without.
C13_Witness ==
    /\ qlast.op = "finish" /\ pass.created > 0 /\ pass.failed > 0
    /\ Len(rows) = pass.created + pass.failed

\* The queue's breaker denied execution at the step just taken.
QDenies ==
    /\ qlast.qcb.state = "OPEN"
    /\ qlast.t - qlast.qcb.last_failure_time <= Q_recovery_timeout

\* C14: when the queue's embedding circuit breaker denies execution for a
\* chunk of a processing pass, the embedding chain is not invoked for it (the
\* pass's service is left as it was), the chunk is stored with embedding =
\* null and counted as failed, and the breaker is left as it was.
C14_DeniedChunkStoredNull ==
    (qlast.op = "chunk" /\ QDenies) =>
        /\ svc_cb = qlast.svc.cb /\ svc_cache = qlast.svc.cache /\ call = qlast.svc.call
        /\ pass.added = Append(qlast.pass.added,
                               ChunkRow(qlast.pass.i,
                                        Chunks(document.n)[qlast.pass.i + 1].content, NoneEmb))
        /\ pass.failed = qlast.pass.failed + 1
        /\ pass.created = qlast.pass.created
        /\ qcb = qlast.qcb

\* C14 witness: a chunk was handled while the breaker was OPEN within its
\* recovery timeout.
C14_Witness == qlast.op = "chunk" /\ QDenies /\ pass.failed > qlast.pass.failed

\* Requests went to OpenAI during the pass and every one of them failed.
ProviderAlwaysFailed ==
    /\ \E k \in 1..Len(pass.log) : pass.log[k].remote # <<>>
    /\ \A k \in 1..Len(pass.log) : \A j \in 1..Len(pass.log[k].remote) :
          pass.log[k].remote[j] \in RemoteErrors

AllRowsNull == \A k \in 1..Len(rows) : rows[k].embedding = NoneEmb

\* C15 as stated: when the embedding provider fails on every call of a
\* processing pass, every chunk is stored with embedding = null, the status
\* becomes indexing_pending_quota and a retry task is scheduled.
C15_ProviderOutageLeavesAllNull ==
    (qlast.op = "finish" /\ ProviderAlwaysFailed) =>
        /\ AllRowsNull
        /\ document.status = "indexing_pending_quota"
        /\ rtask.state = "queued"

\* C15 amended: when no chunk of a processing pass obtains a vector (for each
\* chunk the queue's breaker denies execution or the embedding chain returns
\* no vector), every chunk is stored with embedding = null, the status
\* becomes indexing_pending_quota and a retry task is queued.
C15_NoVectorLeavesAllNull ==
    (/\ qlast.op = "finish"
     /\ document.n > 0
     /\ \A k \in 1..Len(pass.log) : pass.log[k].denied \/ ~pass.log[k].vector) =>
        /\ Len(rows) = document.n
        /\ AllRowsNull
        /\ document.status = "indexing_pending_quota"
        /\ rtask.state = "queued"

\* C15 witness: a pass in which the chain gave no vector until the breaker
\* opened and denied the remaining chunks.
C15_Witness ==
    /\ qlast.op = "finish" /\ document.n > 0 /\ pass.failed = document.n
    /\ \E k \in 1..Len(pass.log) : pass.log[k].denied
    /\ document.status = "indexing_pending_quota"

\* C16: once text extraction has failed in an execution of
\* process_document_task the document is failed with the extraction error as
\* its message, and the task is not retried: no further execution is queued
\* and the status stays failed.
C16_ExtractionFailureNotRetried ==
    (ptask.execs > 0 /\ extract_text_robust(document.mime).raised) =>
        /\ document.status = "failed"
        /\ document.error_message = extract_text_robust(document.mime).value
        /\ ptask.state # "queued"
        /\ ptask.execs = 1

\* C17: when every execution of process_document_task has raised and the
\* retry ceiling is exhausted, the task is abandoned and the document is left
\* failed with the last exception's message.
C17_AbandonedLeavesFailed ==
    ptask.state = "abandoned" =>
        /\ document.status = "failed"
        /\ document.error_message = ptask.exc

\* C18: process_document_task is retried at most 5 times (6 executions); the
\* retry scheduled when request.retries = n waits 60 * 2^n seconds; after the
\* ceiling nothing more is scheduled.  retry_failed_embeddings is re-executed
\* after an exception at most 3 times.  Both end in a state with no task
\* queued.
C18_RetriesBounded ==
    /\ ptask.retries <= 5 /\ ptask.execs <= 6
    /\ ptask.execs <= ptask.retries + 1
    /\ Len(ptask.delays) = ptask.retries
    /\ \A k \in 1..Len(ptask.delays) : ptask.delays[k] = 60 * Pow2(k - 1)
    /\ (ptask.state = "queued" /\ ptask.retries > 0) =>
          ptask.eta = now + ptask.delays[ptask.retries]
    /\ ptask.state = "abandoned" => (ptask.retries = 5 /\ ptask.execs = 6)
    /\ rtask.retries <= 3 /\ rtask.execs <= 4
    /\ rtask.execs <= rtask.retries + 1
    /\ Len(rtask.delays) = rtask.retries
    /\ rtask.state = "abandoned" => (rtask.retries = 3 /\ rtask.execs = 4)

\* C18 witness: the task was abandoned after its sixth execution.
C18_Witness ==
    /\ ptask.state = "abandoned" /\ ptask.execs = 6
    /\ ptask.delays = <<60, 120, 240, 480, 960>>

\* C19: after a retry pass that leaves a chunk of the document with
\* embedding = null, the retry task is queued again while retries remain, and
\* otherwise the document is embedding_failed.
C19_NullChunksRescheduleOrFail ==
    (qlast.op = "retry_finish" /\ \E k \in 1..Len(rows) : rows[k].embedding = NoneEmb) =>
        IF rtask.retries < 3
        THEN rtask.state = "queued"
        ELSE document.status = "embedding_failed"

\* C20: each reschedule of retry_failed_embeddings waits twice as long as the
\* one before it, capped at 3600 seconds.
C20_RescheduleDelayDoubles ==
    \A k \in 2..Len(rtask.delays) :
        rtask.delays[k] = Min(2 * rtask.delays[k - 1], 3600)

\* C21: the status becomes embedding_failed only in an execution of
\* retry_failed_embeddings that raised with request.retries at the ceiling 3,
\* whether the task's countdown is 60 or 300.
C21_EmbeddingFailedOnlyAtCeiling ==
    (document.status = "embedding_failed" /\ qlast.document.status # "embedding_failed") =>
        /\ qlast.op \in {"retry_raise", "retry_commit_raises"}
        /\ qlast.rtask.countdown \in {retry_default_countdown, pending_quota_countdown}
        /\ qlast.rtask.retries = retry_task_max_retries
        /\ rtask.state = "abandoned"

\* C21 witness: the fourth execution of a retry task with countdown 300
\* raised and wrote embedding_failed.
C21_Witness ==
    /\ qlast.op = "retry_raise" /\ qlast.document.status # "embedding_failed"
    /\ document.status = "embedding_failed"
    /\ qlast.rtask.countdown = pending_quota_countdown /\ rtask.execs = 4

\* The document had no chunk with embedding = null before the step.
NoNullBefore == \A k \in 1..Len(qlast.rows) : qlast.rows[k].embedding # NoneEmb

\* C22: an execution of the retry task that finds no chunk with embedding =
\* null changes neither the document's status and message nor its chunks nor
\* the queue's breaker, calls no provider and queues no task.
C22_RetryWithoutNullChunksIsNoOp ==
    (qlast.op = "retry_start" /\ NoNullBefore) =>
        /\ document = qlast.document
        /\ rows = qlast.rows
        /\ qcb = qlast.qcb
        /\ call = NoChainCall /\ svc_cb = Emb_init /\ svc_cache = EmptyDict
        /\ ptask = qlast.ptask
        /\ rtask = [qlast.rtask EXCEPT !.state = "done", !.execs = @ + 1]

\* C22 witness: the retry task ran again on a document whose chunks all had
\* a vector.
C22_Witness ==
    /\ qlast.op = "retry_start" /\ NoNullBefore
    /\ Len(qlast.rows) > 0 /\ rtask.state = "done"

\* C23: whatever executions of process_document_task (retries after an
\* exception and redeliveries included) and of the retry task have run, the
\* stored chunks of the document carry the indices 0 .. n-1, each once.
C23_ChunkIndicesUniqueContiguous ==
    /\ \A j, k \in 1..Len(rows) : j # k => rows[j].chunk_index # rows[k].chunk_index
    /\ {rows[k].chunk_index : k \in 1..Len(rows)} = 0..(Len(rows) - 1)

\* C24: whenever a processing pass or a retry pass leaves the document ready,
\* every stored chunk of the document has a vector; a retry pass that the
\* breaker stopped before all chunks were attempted does not leave it ready.
C24_ReadyMeansNoNullChunk ==
    (qlast.op \in {"finish", "retry_finish"} /\ document.status = "ready") =>
        /\ \A k \in 1..Len(rows) : rows[k].embedding # NoneEmb
        /\ ~pass.stopped

\* The chunk writes of the current pass, all applied to the rows the pass
\* started from.
PassWrites ==
    IF pass.kind = "process" THEN pass.base \o pass.added
    ELSE commit_retry(pass.base, pass.added)

\* The pass has left its loop.
PassLoopOver ==
    IF pass.kind = "process" THEN pass.i = document.n
    ELSE pass.stopped \/ pass.i = Len(pass.todo)

\* C25: the chunk writes of a processing pass or a retry pass are stored all
\* together or not at all, also when the pass ends with an exception: the
\* stored chunks are those the pass started from, or those with every write
\* of the finished loop applied.
C25_PassCommitsAtomically ==
    pass.kind # "none" =>
        \/ rows = pass.base
        \/ PassLoopOver /\ rows = PassWrites

\* C25 witness: a pass with at least two chunk writes ended with an exception
\* of its commit.
C25_Witness ==
    /\ qlast.op \in {"commit_raises", "retry_commit_raises"}
    /\ Len(pass.added) >= 2
    /\ rows = pass.base

(***************************************************************************)
(* Part 5.  VectorSearchService.search_documents                           *)
(* (src/services/vector_search_service.py).  The database and the          *)
(* embedding service are the environment: for one call each strategy       *)
(* raises, returns None (no query embedding, or a database error caught    *)
(* inside the strategy), or returns a list of rows.                        *)
(***************************************************************************)
MaxHits == 2          \* SpecSearch: rows of a strategy's non-empty result
MaxSearchKeys == 2    \* SpecSearch: keys in the search cache, at most

max_sources == 5             \* getattr(settings, 'max_sources', 5)
similarity_threshold == "0.7"

Queries == {"alpha", "beta"}
SearchUser == "demo-user"

\* cache_key = f"{query}_{user_id}_{limit}_{similarity_threshold}"
cache_key(query, user_id, limit, threshold) ==
    query \o "_" \o user_id \o "_" \o ToString(limit) \o "_" \o threshold

\* The rows a strategy returns, as the dicts built from them.
Hits(method, provider, n, query) ==
    [i \in 1..n |-> [chunk_id |-> i, content |-> query, search_method |-> method,
                     embedding_provider |-> provider]]

StrategyReturn(raised, none, rs) == [raised |-> raised, none |-> none, rows |-> rs]

\* What one strategy meets during one call.
StrategyOutcomes ==
    {[k |-> "raise", n |-> 0], [k |-> "none", n |-> 0]}
        \cup {[k |-> "rows", n |-> m] : m \in {0, MaxHits}}

SearchWorlds ==
    [vector : StrategyOutcomes, fulltext : StrategyOutcomes, keyword : StrategyOutcomes]

\* _vector_search, lines 76-147: None without a query embedding or on a
\* database error, else the rows above the threshold.
vector_search(w, query) ==
    IF w.k = "raise" THEN StrategyReturn(TRUE, TRUE, <<>>)
    ELSE IF w.k = "none" THEN StrategyReturn(FALSE, TRUE, <<>>)
    ELSE StrategyReturn(FALSE, FALSE, Hits("vector", "local_hash", w.n, query))

\* _fulltext_search, lines 149-213
fulltext_search(w, query) ==
    IF w.k = "raise" THEN StrategyReturn(TRUE, TRUE, <<>>)
    ELSE IF w.k = "none" THEN StrategyReturn(FALSE, TRUE, <<>>)
    ELSE StrategyReturn(FALSE, FALSE, Hits("fulltext", "postgresql", w.n, query))

\* _keyword_search, lines 215-291: an error inside the try gives [].
keyword_search(w, query) ==
    IF w.k = "raise" THEN StrategyReturn(TRUE, TRUE, <<>>)
    ELSE IF w.k = "none" THEN StrategyReturn(FALSE, FALSE, <<>>)
    ELSE StrategyReturn(FALSE, FALSE, Hits("keyword", "none", w.n, query))

\* if results:
TruthyResults(r) == ~r.none /\ r.rows # <<>>

search_cache_put(c, key, rs) ==
    [x \in DOMAIN c \cup {key} |-> IF x = key THEN rs ELSE c[x]]

SearchReturn(c, rs, method, raised, tried) ==
    [cache |-> c, results |-> rs, method |-> method, raised |-> raised, tried |-> tried]

\* Mutant: full-text search is tried before vector search.
search_documents_fulltext_first(c, query, user_id, limit, threshold, w) ==
    LET key == cache_key(query, user_id, limit, threshold)
        v == vector_search(w.vector, query)
        f == fulltext_search(w.fulltext, query)
        k == keyword_search(w.keyword, query)
    IN  IF key \in DOMAIN c
        THEN SearchReturn(c, c[key], "cache", FALSE, <<>>)
        ELSE IF ~f.raised /\ TruthyResults(f)
        THEN SearchReturn(search_cache_put(c, key, f.rows), f.rows, "fulltext_search",
                          FALSE, <<"fulltext">>)
        ELSE IF ~v.raised /\ TruthyResults(v)
        THEN SearchReturn(search_cache_put(c, key, v.rows), v.rows, "vector_search",
                          FALSE, <<"fulltext", "vector">>)
        ELSE IF ~k.raised
        THEN SearchReturn(search_cache_put(c, key, k.rows), k.rows, "keyword_search",
                          FALSE, <<"fulltext", "vector", "keyword">>)
        ELSE SearchReturn(c, <<>>, "search_failed", FALSE, <<"fulltext", "vector", "keyword">>)

\* Mutant: the keyword search is called outside a try.
search_documents_keyword_unguarded(c, query, user_id, limit, threshold, w) ==
    LET key == cache_key(query, user_id, limit, threshold)
        v == vector_search(w.vector, query)
        f == fulltext_search(w.fulltext, query)
        k == keyword_search(w.keyword, query)
    IN  IF key \in DOMAIN c
        THEN SearchReturn(c, c[key], "cache", FALSE, <<>>)
        ELSE IF ~v.raised /\ TruthyResults(v)
        THEN SearchReturn(search_cache_put(c, key, v.rows), v.rows, "vector_search",
                          FALSE, <<"vector">>)
        ELSE IF ~f.raised /\ TruthyResults(f)
        THEN SearchReturn(search_cache_put(c, key, f.rows), f.rows, "fulltext_search",
                          FALSE, <<"vector", "fulltext">>)
        ELSE IF ~k.raised
        THEN SearchReturn(search_cache_put(c, key, k.rows), k.rows, "keyword_search",
                          FALSE, <<"vector", "fulltext", "keyword">>)
        ELSE SearchReturn(c, <<>>, "", TRUE, <<"vector", "fulltext", "keyword">>)

\* search_documents, lines 31-74
search_documents(c, query, user_id, limit, threshold, w) ==
    LET key == cache_key(query, user_id, limit, threshold)
        v == vector_search(w.vector, query)
        f == fulltext_search(w.fulltext, query)
        k == keyword_search(w.keyword, query)
    IN  IF key \in DOMAIN c
        THEN SearchReturn(c, c[key], "cache", FALSE, <<>>)
        ELSE IF ~v.raised /\ TruthyResults(v)
        THEN SearchReturn(search_cache_put(c, key, v.rows), v.rows, "vector_search",
                          FALSE, <<"vector">>)
        ELSE IF ~f.raised /\ TruthyResults(f)
        THEN SearchReturn(search_cache_put(c, key, f.rows), f.rows, "fulltext_search",
                          FALSE, <<"vector", "fulltext">>)
        ELSE IF ~k.raised
        THEN SearchReturn(search_cache_put(c, key, k.rows), k.rows, "keyword_search",
                          FALSE, <<"vector", "fulltext", "keyword">>)
        ELSE SearchReturn(c, <<>>, "search_failed", FALSE, <<"vector", "fulltext", "keyword">>)

\* SpecSearch leaves the breakers, the chains and the queue untouched.
BackIdle == BreakerIdle /\ ChainIdle /\ QueueIdle /\ now = 0

SearchInit ==
    /\ BackIdle
    /\ search_cache = EmptyDict
    /\ slast = NoSearch
    /\ chat_sessions = {} /\ chat_messages = <<>> /\ clast = NoChat
    /\ tc = NoTruncate
    /\ ck = NoChunking /\ ConcIdle

\* A caller awaits search_documents(query, user_id, limit).
SearchDocuments ==
    \E query \in Queries, w \in SearchWorlds :
        LET limit == max_sources
            r == search_documents(search_cache, query, SearchUser, limit,
                                  similarity_threshold, w)
        IN  /\ Cardinality(DOMAIN search_cache) < MaxSearchKeys
            /\ search_cache' = r.cache
            /\ slast' = [op |-> "search", query |-> query, limit |-> limit, w |-> w,
                          pre |-> search_cache, results |-> r.results,
                          method |-> r.method, raised |-> r.raised, tried |-> r.tried]
            /\ UNCHANGED <<now, breakerVars, chainVars, queueVars,
                           chat_sessions, chat_messages, clast, tc, ck, concVars>>

\* clear_search_cache, lines 398-401
ClearSearchCache ==
    /\ search_cache # EmptyDict
    /\ search_cache' = EmptyDict
    /\ slast' = [NoSearch EXCEPT !.op = "clear", !.pre = search_cache]
    /\ UNCHANGED <<now, breakerVars, chainVars, queueVars,
                   chat_sessions, chat_messages, clast, tc, ck, concVars>>

SearchNext == SearchDocuments \/ ClearSearchCache

SpecSearch == SearchInit /\ [][SearchNext]_vars

\* The first strategy, in the order vector, full-text, keyword, whose result
\* for the call is a non-empty list ("none" if there is none).
FirstNonEmpty(w, query) ==
    IF ~vector_search(w.vector, query).raised /\ vector_search(w.vector, query).rows # <<>>
    THEN "vector"
    ELSE IF ~fulltext_search(w.fulltext, query).raised
            /\ fulltext_search(w.fulltext, query).rows # <<>>
    THEN "fulltext"
    ELSE IF ~keyword_search(w.keyword, query).raised
            /\ keyword_search(w.keyword, query).rows # <<>>
    THEN "keyword"
    ELSE "none"

\* The call tried the strategies in order up to the first non-empty one and
\* returned its rows with its identifier.
FirstNonEmptyWins ==
    LET first == FirstNonEmpty(slast.w, slast.query)
    IN  /\ first = "vector" =>
              /\ slast.tried = <<"vector">>
              /\ slast.method = "vector_search"
              /\ slast.results = vector_search(slast.w.vector, slast.query).rows
        /\ first = "fulltext" =>
              /\ slast.tried = <<"vector", "fulltext">>
              /\ slast.method = "fulltext_search"
              /\ slast.results = fulltext_search(slast.w.fulltext, slast.query).rows
              /\ \A i \in 1..Len(slast.results) : slast.results[i].search_method = "fulltext"
        /\ first = "keyword" =>
              /\ slast.tried = <<"vector", "fulltext", "keyword">>
              /\ slast.method = "keyword_search"
              /\ slast.results = keyword_search(slast.w.keyword, slast.query).rows
        /\ first = "none" => slast.tried = <<"vector", "fulltext", "keyword">>

\* The call found its key in the cache.
SearchCacheHit ==
    cache_key(slast.query, SearchUser, slast.limit, similarity_threshold) \in DOMAIN slast.pre

\* C26 as stated: every call of search_documents tries vector search, then
\* full-text search, then keyword search, and returns the rows of the first
\* strategy with a non-empty result together with that strategy's identifier.
C26_FirstNonEmptyStrategyWins ==
    slast.op = "search" => FirstNonEmptyWins

\* C26 amended: a call whose key is not in the search cache tries the
\* strategies in that order and returns the rows and the identifier of the
\* first with a non-empty result; a call whose key is in the cache tries no
\* strategy and returns the cached rows with the identifier "cache".
C26_FirstNonEmptyWinsOnCacheMiss ==
    slast.op = "search" =>
        IF SearchCacheHit
        THEN /\ slast.tried = <<>>
             /\ slast.method = "cache"
             /\ slast.results =
                   slast.pre[cache_key(slast.query, SearchUser, slast.limit,
                                       similarity_threshold)]
             /\ search_cache = slast.pre
        ELSE FirstNonEmptyWins

\* C26 witness: vector search gave nothing (an error or no row), full-text
\* search gave rows, and the call returned them as full-text results.
C26_Witness ==
    /\ slast.op = "search" /\ ~SearchCacheHit
    /\ slast.w.vector.k \in {"raise", "none"}
    /\ slast.method = "fulltext_search" /\ Len(slast.results) = MaxHits

\* C27: search_documents never raises; when each of the three strategies
\* raised or returned nothing, the call returns an empty list with the
\* identifier keyword_search or search_failed.
C27_SearchNeverRaises ==
    slast.op = "search" =>
        /\ ~slast.raised
        /\ (~SearchCacheHit /\ FirstNonEmpty(slast.w, slast.query) = "none") =>
              /\ slast.results = <<>>
              /\ slast.method \in {"keyword_search", "search_failed"}
              /\ slast.method = "search_failed" <=> slast.w.keyword.k = "raise"

\* C27 witness: all three strategies raised and the call returned the empty
\* list identified as search_failed.
C27_Witness ==
    /\ slast.op = "search" /\ ~SearchCacheHit
    /\ slast.w.vector.k = "raise" /\ slast.w.fulltext.k = "raise"
    /\ slast.w.keyword.k = "raise"
    /\ slast.results = <<>> /\ slast.method = "search_failed"

(***************************************************************************)
(* Part 6.  EnhancedChatService.process_chat_message                       *)
(* (src/services/enhanced_chat_service.py).  The database is the           *)
(* environment: an awaited database call of the method may raise.  The     *)
(* search service and the completion chain return without raising.         *)
(***************************************************************************)
MaxChatMessages == 3   \* SpecChat: committed chat messages, at most, when a call starts

SessionIds == {"s1", "s2"}
ChatTexts == {"what is alpha", "what is beta"}
chat_answer == "alpha is the first letter"
error_response == "I apologize, but I encountered an issue processing your message. Please try again, and if the problem persists, check that your documents are properly uploaded and indexed."
nested_error_response == "I'm experiencing technical difficulties. Please try again later."

ChatMessage(session_id, role, content) ==
    [session_id |-> session_id, role |-> role, content |-> content]

\* The awaited database call of the try block that raises ("none": no call
\* raises), and whether the handler's rollback and commit raise.
ChatFaults ==
    [at : {"none", "session", "flush", "history", "commit"},
     rollback_raises : BOOLEAN, handler_commit_raises : BOOLEAN]

ChatReturn(sessions, messages, raised, success, response) ==
    [sessions |-> sessions, messages |-> messages, raised |-> raised,
     success |-> success, response |-> response]

\* What the session of the call has flushed and not committed when the call
\* f.at raises: the session row if it was not there (lines 292-298), the
\* user message (lines 49-56), the assistant message (lines 77-84).
ChatPending(sessions, session_id, message, f) ==
    [sessions |-> IF f.at # "session" /\ session_id \notin sessions
                  THEN {session_id} ELSE {},
     messages |-> IF f.at \in {"session", "flush"} THEN <<>>
                  ELSE IF f.at = "history"
                  THEN <<ChatMessage(session_id, "user", message)>>
                  ELSE <<ChatMessage(session_id, "user", message),
                         ChatMessage(session_id, "assistant", chat_answer)>>]

\* process_chat_message, lines 99-137: the handler.  db.rollback() discards
\* what the try block flushed; the apology is then added and committed, which
\* the foreign key of chat_messages.session_id refuses when the session row
\* is missing.
chat_on_exception(sessions, messages, pending, session_id, f) ==
    IF f.rollback_raises
    THEN ChatReturn(sessions, messages, TRUE, FALSE, "")
    ELSE IF f.handler_commit_raises \/ session_id \notin sessions
    THEN ChatReturn(sessions, messages, FALSE, FALSE, nested_error_response)
    ELSE ChatReturn(sessions,
                    Append(messages, ChatMessage(session_id, "assistant", error_response)),
                    FALSE, FALSE, error_response)

\* process_chat_message, lines 34-137
process_chat_message(sessions, messages, session_id, message, f) ==
    LET pending == ChatPending(sessions, session_id, message, f)
    IN  IF f.at = "none"
        THEN \* await db.commit(), line 86
             ChatReturn(sessions \cup pending.sessions, messages \o pending.messages,
                        FALSE, TRUE, chat_answer)
        ELSE chat_on_exception(sessions, messages, pending, session_id, f)

ChatInit ==
    /\ BackIdle
    /\ search_cache = EmptyDict /\ slast = NoSearch
    /\ chat_sessions = {} /\ chat_messages = <<>> /\ clast = NoChat
    /\ tc = NoTruncate
    /\ ck = NoChunking /\ ConcIdle

\* POST /chat/query awaits process_chat_message.
ProcessChatMessage ==
    \E session_id \in SessionIds, message \in ChatTexts, f \in ChatFaults :
        LET r == process_chat_message(chat_sessions, chat_messages, session_id, message, f)
        IN  /\ Len(chat_messages) < MaxChatMessages
            /\ f.at = "none" => ~f.rollback_raises /\ ~f.handler_commit_raises
            /\ chat_sessions' = r.sessions
            /\ chat_messages' = r.messages
            /\ clast' = [op |-> "chat", session_id |-> session_id, message |-> message,
                          f |-> f,
                          pre |-> [sessions |-> chat_sessions, messages |-> chat_messages],
                          raised |-> r.raised, success |-> r.success,
                          response |-> r.response,
                          persisted |-> SubSeq(r.messages, Len(chat_messages) + 1,
                                               Len(r.messages))]
            /\ UNCHANGED <<now, breakerVars, chainVars, queueVars, search_cache, slast, tc, ck, concVars>>

ChatNext == ProcessChatMessage

SpecChat == ChatInit /\ [][ChatNext]_vars

\* C28: process_chat_message never propagates an exception; when a step of
\* it fails it returns a non-empty apology as the response and an assistant
\* message with that apology is stored in the session.
C28_FailureStoresApology ==
    clast.op = "chat" =>
        /\ ~clast.raised
        /\ ~clast.success =>
              /\ clast.response # ""
              /\ \E i \in 1..Len(clast.persisted) :
                    clast.persisted[i] =
                        ChatMessage(clast.session_id, "assistant", clast.response)

\* C29: every call of process_chat_message stores the user's message in the
\* session, before the assistant message the call writes, whether the call
\* succeeds or ends in its handler.
C29_UserMessageStoredFirst ==
    clast.op = "chat" =>
        /\ Len(clast.persisted) >= 1
        /\ clast.persisted[1] = ChatMessage(clast.session_id, "user", clast.message)
        /\ \A i \in 2..Len(clast.persisted) : clast.persisted[i].role = "assistant"

(***************************************************************************)
(* Part 7.  EnhancedChatService._truncate_context                          *)
(* (src/services/enhanced_chat_service.py, lines 256-284), applied to the  *)
(* list _generate_contextual_response builds: the system prompt, the       *)
(* recent turns, the current question.                                     *)
(***************************************************************************)
MaxTurns == 3           \* SpecTruncate: turns of history in the list, at most
MaxContextLength == 12  \* SpecTruncate: max_length, at most

SystemMsg == [role |-> "system", content |-> "sys"]
QuestionMsg == [role |-> "user", content |-> "q?"]
TurnContents == {"a", "bbbb"}

\* The turn at position i of the history: users and the assistant alternate.
Turn(i, content) ==
    [role |-> IF i % 2 = 1 THEN "user" ELSE "assistant", content |-> content]

Histories ==
    UNION {{[i \in 1..n |-> Turn(i, cs[i])] : cs \in [1..n -> TurnContents]} : n \in 0..MaxTurns}

\* sum(len(msg["content"]) for msg in messages)
RECURSIVE total_length(_)
total_length(messages) ==
    IF messages = <<>> THEN 0
    ELSE Len(Head(messages).content) + total_length(Tail(messages))

\* Mutant: a turn that does not fit is skipped and older turns are still
\* considered (continue in place of break).
RECURSIVE keep_recent_skip(_, _, _)
keep_recent_skip(middle_msgs, i, remaining_length) ==
    IF i = 0 THEN <<>>
    ELSE IF Len(middle_msgs[i].content) < remaining_length
    THEN Append(keep_recent_skip(middle_msgs, i - 1,
                                 remaining_length - Len(middle_msgs[i].content)),
                middle_msgs[i])
    ELSE keep_recent_skip(middle_msgs, i - 1, remaining_length)

\* lines 277-282: for msg in reversed(middle_msgs), from position i down.
RECURSIVE keep_recent(_, _, _)
keep_recent(middle_msgs, i, remaining_length) ==
    IF i = 0 THEN <<>>
    ELSE IF Len(middle_msgs[i].content) < remaining_length
    THEN Append(keep_recent(middle_msgs, i - 1,
                            remaining_length - Len(middle_msgs[i].content)),
                middle_msgs[i])
    ELSE <<>>

\* _truncate_context, lines 256-284
truncate_context(messages, max_length) ==
    IF total_length(messages) <= max_length THEN messages
    ELSE IF Len(messages) <= 2 THEN messages
    ELSE LET system_msg == messages[1]
             user_msg == messages[Len(messages)]
             middle_msgs == SubSeq(messages, 2, Len(messages) - 1)
             remaining_length == max_length - Len(system_msg.content)
                                     - Len(user_msg.content)
         IN  <<system_msg>> \o keep_recent(middle_msgs, Len(middle_msgs), remaining_length)
                 \o <<user_msg>>

\* _generate_contextual_response has built the list (lines 181-207).
TruncateInit ==
    /\ BackIdle
    /\ search_cache = EmptyDict /\ slast = NoSearch
    /\ chat_sessions = {} /\ chat_messages = <<>> /\ clast = NoChat
    /\ \E h \in Histories, m \in 0..MaxContextLength :
          tc = [messages |-> <<SystemMsg>> \o h \o <<QuestionMsg>>, max_length |-> m,
                done |-> FALSE, result |-> <<>>]
    /\ ck = NoChunking /\ ConcIdle

\* messages = self._truncate_context(messages, self.max_context_length)
TruncateContext ==
    /\ ~tc.done
    /\ tc' = [tc EXCEPT !.done = TRUE,
                        !.result = truncate_context(tc.messages, tc.max_length)]
    /\ UNCHANGED <<now, breakerVars, chainVars, queueVars, search_cache, slast,
                   chat_sessions, chat_messages, clast, ck, concVars>>

TruncateNext == TruncateContext

SpecTruncate == TruncateInit /\ [][TruncateNext]_vars

\* C30: the list _truncate_context returns starts with the system
\* instruction and ends with the current question, and the turns between
\* them are the most recent turns of the list it was given, in their order,
\* with none left out between the first kept turn and the last turn.
C30_KeepsRecentSuffix ==
    tc.done =>
        LET n == Len(tc.messages)
            k == Len(tc.result)
        IN  /\ k >= 2 /\ k <= n
            /\ tc.result[1] = tc.messages[1] /\ tc.result[1] = SystemMsg
            /\ tc.result[k] = tc.messages[n] /\ tc.result[k] = QuestionMsg
            /\ SubSeq(tc.result, 2, k - 1) = SubSeq(tc.messages, n - k + 2, n - 1)

\* C30 witness: of three turns the oldest was dropped and the two most
\* recent were kept.
C30_Witness ==
    /\ tc.done /\ Len(tc.messages) = 5 /\ Len(tc.result) = 4
    /\ tc.result[2] = tc.messages[3] /\ tc.result[3] = tc.messages[4]

\* C31: the total content length of the list _truncate_context returns is at
\* most max_length.
C31_ContextWithinMaxLength ==
    tc.done => total_length(tc.result) <= tc.max_length

(***************************************************************************)
(* Part 8.  _chunk_text_robust (src/services/queue_processor.py, lines     *)
(* 423-463).  A text is the sequence of its characters; chunk_size and     *)
(* overlap are the settings read at lines 426-427.                         *)
(***************************************************************************)
MaxTextLen == 5     \* SpecChunk: characters of the extracted text, at most
MaxChunkSize == 4   \* SpecChunk: settings.chunk_size, at most

Alphabet == {"a", ".", " "}
ChunkTexts == UNION {[1..n -> Alphabet] : n \in 0..MaxTextLen}
Period == <<".", " ">>

\* text.split('. ')
RECURSIVE split_period(_, _)
split_period(text, from) ==
    LET at == {i \in from..(Len(text) - 1) : text[i] = "." /\ text[i + 1] = " "}
    IN  IF at = {} THEN <<SubSeq(text, from, Len(text))>>
        ELSE LET i == CHOOSE j \in at : \A o \in at : j <= o
             IN  <<SubSeq(text, from, i - 1)>> \o split_period(text, i + 2)

\* str.strip()
RECURSIVE strip(_)
strip(str) ==
    IF str = <<>> THEN str
    ELSE IF Head(str) = " " THEN strip(Tail(str))
    ELSE IF str[Len(str)] = " " THEN strip(SubSeq(str, 1, Len(str) - 1))
    ELSE str

\* current_chunk[-overlap:] if len(current_chunk) > overlap else current_chunk
overlap_text(current_chunk, overlap) ==
    IF Len(current_chunk) > overlap /\ overlap > 0
    THEN SubSeq(current_chunk, Len(current_chunk) - overlap + 1, Len(current_chunk))
    ELSE current_chunk

ChunkDict(current_chunk, current_start) ==
    [content |-> strip(current_chunk), char_start |-> current_start,
     char_end |-> current_start + Len(current_chunk)]

\* lines 434-452: the loop, from sentence k on.
RECURSIVE chunk_sentences(_, _, _, _, _, _, _)
chunk_sentences(sentences, k, chunks, current_chunk, current_start, chunk_size, overlap) ==
    IF k > Len(sentences)
    THEN [chunks |-> chunks, current_chunk |-> current_chunk,
          current_start |-> current_start]
    ELSE LET sentence_with_period == sentences[k] \o Period
         IN  IF Len(current_chunk \o sentence_with_period) <= chunk_size
             THEN chunk_sentences(sentences, k + 1, chunks,
                                  current_chunk \o sentence_with_period, current_start,
                                  chunk_size, overlap)
             ELSE IF current_chunk # <<>>
             THEN LET ot == overlap_text(current_chunk, overlap)
                  IN  chunk_sentences(sentences, k + 1,
                          Append(chunks, ChunkDict(current_chunk, current_start)),
                          ot \o sentence_with_period,
                          current_start + Len(current_chunk) - Len(ot),
                          chunk_size, overlap)
             ELSE chunk_sentences(sentences, k + 1, chunks, sentence_with_period,
                                  current_start, chunk_size, overlap)

\* _chunk_text_robust, lines 423-463
chunk_text_robust(text, chunk_size, overlap) ==
    LET r == chunk_sentences(split_period(text, 1), 1, <<>>, <<>>, 0, chunk_size, overlap)
    IN  IF r.current_chunk # <<>>
        THEN Append(r.chunks, ChunkDict(r.current_chunk, r.current_start))
        ELSE r.chunks

\* _process_document_async has extracted the text (line 165).
ChunkInit ==
    /\ BackIdle
    /\ search_cache = EmptyDict /\ slast = NoSearch
    /\ chat_sessions = {} /\ chat_messages = <<>> /\ clast = NoChat
    /\ tc = NoTruncate /\ ConcIdle
    /\ \E text \in ChunkTexts, chunk_size \in 2..MaxChunkSize :
          \E overlap \in 0..(chunk_size - 1) :
             ck = [text |-> text, chunk_size |-> chunk_size, overlap |-> overlap,
                   done |-> FALSE, chunks |-> <<>>]

\* chunks = _chunk_text_robust(extracted_text), line 175
ChunkText ==
    /\ ~ck.done
    /\ ck' = [ck EXCEPT !.done = TRUE,
                        !.chunks = chunk_text_robust(ck.text, ck.chunk_size, ck.overlap)]
    /\ UNCHANGED <<now, breakerVars, chainVars, queueVars, search_cache, slast,
                   chat_sessions, chat_messages, clast, tc, concVars>>

ChunkNext == ChunkText

SpecChunk == ChunkInit /\ [][ChunkNext]_vars

\* C32: the spans [char_start, char_end) of the chunks, in index order, cover
\* the text contiguously: the first starts at 0, each next one starts no
\* later than the end of the one before, every span lies within
\* [0, len(text)], every character of the text is in a span, and each
\* chunk's content is the text of its span.
C32_SpansCoverText ==
    ck.done =>
        LET cs == ck.chunks
            n == Len(ck.text)
        IN  /\ cs # <<>> => cs[1].char_start = 0
            /\ \A i \in 2..Len(cs) : cs[i].char_start <= cs[i - 1].char_end
            /\ \A i \in 1..Len(cs) :
                  /\ 0 <= cs[i].char_start /\ cs[i].char_start <= cs[i].char_end
                  /\ cs[i].char_end <= n
                  /\ cs[i].content = SubSeq(ck.text, cs[i].char_start + 1, cs[i].char_end)
            /\ \A c \in 1..n : \E i \in 1..Len(cs) :
                  cs[i].char_start < c /\ c <= cs[i].char_end

(***************************************************************************)
(* Part 9.  Claims about what tasks, requests and calls share.             *)
(***************************************************************************)
\* The step just taken started a task: _process_document_async (line 145) or
\* _retry_embeddings_async built its service object.
TaskStarted == qlast.op \in {"start", "abort", "retry_start", "retry_raise"}

\* Before the step the embedding provider's breaker was open and its recovery
\* timeout had not passed at the time of the step.
ProviderOpenBefore ==
    /\ qlast.svc.cb # EmptyDict
    /\ qlast.svc.cb.state = "OPEN"
    /\ qlast.t - qlast.svc.cb.last_failure_time <= Emb_recovery_timeout

MaxRaceChunks == 2   \* SpecRace: chunks of the document's text, at most

RaceInit ==
    /\ QueueInit
    /\ document.mime \in ExtractableMimeTypes
    /\ document.n \in 1..MaxRaceChunks

\* _process_document_async, line 228: await db.commit()
RacePassCommit ==
    /\ ptask.state = "running" /\ pass.kind = "process"
    /\ pass.i = document.n
    /\ race.pass_pc = "loop"
    /\ rows' = rows \o pass.added
    /\ race' = [race EXCEPT !.pass_pc = "committed"]
    /\ qlast' = StepRecord("race_commit", now)
    /\ UNCHANGED <<now, breakerVars, chainVars, document, qcb, ptask, pass, rtask,
                   search_cache, slast, chat_sessions, chat_messages, clast, tc, ck,
                   flight, corpus>>

\* _process_document_async, lines 230-243: the final status is chosen and the
\* retry task is handed to the broker; the pass then awaits update_document.
RacePassEnqueue ==
    LET f == final_status(pass.created, pass.failed)
    IN  /\ race.pass_pc = "committed"
        /\ rtask' = (IF f.enqueue THEN task_delay(f.countdown, now) ELSE rtask)
        /\ race' = [race EXCEPT !.pass_pc = "enqueued",
                                !.retry_pc = IF f.enqueue THEN "queued" ELSE @]
        /\ qlast' = StepRecord("race_enqueue", now)
        /\ UNCHANGED <<now, breakerVars, chainVars, document, rows, qcb, ptask, pass,
                       search_cache, slast, chat_sessions, chat_messages, clast, tc, ck,
                       flight, corpus>>

\* _process_document_async, lines 246-259: update_document stores the final
\* status and the pass returns.
RacePassStatus ==
    LET f == final_status(pass.created, pass.failed)
    IN  /\ race.pass_pc = "enqueued"
        /\ document' = [document EXCEPT !.status = f.status,
                           !.error_message = IF f.status # "ready" THEN f.message ELSE @]
        /\ ptask' = [ptask EXCEPT !.state = "done"]
        /\ race' = [race EXCEPT !.pass_pc = "done"]
        /\ qlast' = StepRecord("race_status", now)
        /\ UNCHANGED <<now, breakerVars, chainVars, rows, qcb, pass, rtask,
                       search_cache, slast, chat_sessions, chat_messages, clast, tc, ck,
                       flight, corpus>>

\* retry_failed_embeddings starts on a worker of the pool: lines 274-333.
\* The worker process is the one of the pass or another one, whose
\* embedding_circuit_breaker is its own.
RaceRetrySelect ==
    LET todo == null_rows(rows, 1)
    IN  /\ race.retry_pc = "queued"
        /\ NewEmbeddingService
        /\ qcb' \in {qcb, Q_init}
        /\ rtask' = [rtask EXCEPT !.state = IF todo = <<>> THEN "done" ELSE "running",
                                  !.execs = @ + 1]
        /\ race' = [race EXCEPT !.retry_pc = IF todo = <<>> THEN "done" ELSE "loop",
                                !.rpass = [NoPass EXCEPT !.kind = "retry", !.todo = todo,
                                                         !.base = rows]]
        /\ qlast' = StepRecord("race_retry_select", now)
        /\ UNCHANGED <<now, breakerVars, chain, env, document, rows, ptask, pass,
                       search_cache, slast, chat_sessions, chat_messages, clast, tc, ck,
                       flight, corpus>>

\* _retry_embeddings_async, lines 338-362: one chunk of the retry task
RaceRetryChunk ==
    /\ race.retry_pc = "loop"
    /\ ~race.rpass.stopped
    /\ race.rpass.i < Len(race.rpass.todo)
    /\ \E in \in QueueChainInputs :
          LET r == retry_chunk(qcb, race.rpass, svc_cb, svc_cache, model_loaded, call, env,
                               rows, in, now)
          IN  /\ qcb' = r.qcb
              /\ race' = [race EXCEPT !.rpass = r.pass]
              /\ svc_cb' = r.cb
              /\ svc_cache' = r.cache
              /\ model_loaded' = r.loaded
              /\ call' = r.call
    /\ qlast' = StepRecord("race_retry_chunk", now)
    /\ UNCHANGED <<now, breakerVars, chain, env, document, rows, ptask, pass, rtask,
                   search_cache, slast, chat_sessions, chat_messages, clast, tc, ck,
                   flight, corpus>>

\* _retry_embeddings_async, line 364: await db.commit()
RaceRetryCommit ==
    /\ race.retry_pc = "loop"
    /\ race.rpass.stopped \/ race.rpass.i = Len(race.rpass.todo)
    /\ rows' = commit_retry(rows, race.rpass.added)
    /\ race' = [race EXCEPT !.retry_pc = "committed"]
    /\ qlast' = StepRecord("race_retry_commit", now)
    /\ UNCHANGED <<now, breakerVars, chainVars, document, qcb, ptask, pass, rtask,
                   search_cache, slast, chat_sessions, chat_messages, clast, tc, ck,
                   flight, corpus>>

\* _retry_embeddings_async, lines 366-380: _update_document_status, return
RaceRetryStatus ==
    /\ race.retry_pc = "committed"
    /\ document' = retry_status(document, race.rpass.created, race.rpass.failed)
    /\ rtask' = [rtask EXCEPT !.state = "done"]
    /\ race' = [race EXCEPT !.retry_pc = "done"]
    /\ qlast' = StepRecord("race_retry_status", now)
    /\ UNCHANGED <<now, breakerVars, chainVars, rows, qcb, ptask, pass,
                   search_cache, slast, chat_sessions, chat_messages, clast, tc, ck,
                   flight, corpus>>

RaceNext ==
    \/ ProcessStart \/ ProcessChunk
    \/ RacePassCommit \/ RacePassEnqueue \/ RacePassStatus
    \/ RaceRetrySelect \/ RaceRetryChunk \/ RaceRetryCommit \/ RaceRetryStatus

SpecRace == RaceInit /\ [][RaceNext]_vars

\* The pass ended with both embedded and failed chunks, it and its retry task
\* have finished, and every chunk of the document has an embedding.
RaceOverAllEmbedded ==
    /\ race.pass_pc = "done" /\ race.retry_pc = "done"
    /\ pass.created > 0 /\ pass.failed > 0
    /\ \A j \in 1..Len(rows) : rows[j].embedding # NoneEmb

\* C34: in every interleaving of the end of a pass with the retry task it
\* enqueued, once both have finished and every chunk has a non-null
\* embedding, the document's status is ready.
C34_ReadyNotOverwrittenByPartial ==
    RaceOverAllEmbedded => document.status = "ready"

(***************************************************************************)
(* SpecQueueFair: SpecQueue with a worker that keeps working: a task that  *)
(* is queued is started once its eta has come, and a task that has started *)
(* runs on to its end, so a step that is possible is eventually taken.     *)
(***************************************************************************)
SpecQueueFair == QueueInit /\ [][QueueNext]_vars /\ WF_vars(QueueNext)

TerminalStatuses == {"ready", "failed", "embedding_failed"}

\* C35: with a worker that keeps working, the document eventually has a
\* terminal status: ready, failed or embedding_failed.
C35_EventuallyTerminalStatus == <>(document.status \in TerminalStatuses)

(***************************************************************************)
(* SpecFlight: one breaker shared by chain calls that are in flight        *)
(* together.  A call asks can_execute(), awaits its provider when admitted *)
(* (resilient_embedding_service.py lines 159-171, multi_llm_service.py     *)
(* lines 144-155, queue_processor.py lines 184-217), and reports           *)
(* on_success() or on_failure() when the provider has answered; other      *)
(* calls run while it awaits.  flight counts the calls that await.         *)
(***************************************************************************)
MaxFlight == 2   \* SpecFlight: calls awaiting their provider together, at most

FlightInit == BreakerInit

FlightCall(op, r, pre) ==
    [op |-> op, ret |-> r.ret, raised |-> r.raised, t |-> now, pre |-> pre]

\* if self.circuit_breaker.can_execute(): ... await the provider
FlightAdmit ==
    LET r == can_execute(impl, brk, prov, now)
    IN  /\ flight < MaxFlight
        /\ brk' = r.b
        /\ flight' = (IF ~r.raised /\ r.ret THEN flight + 1 ELSE flight)
        /\ last' = FlightCall("can_execute", r, Cur)
        /\ UNCHANGED <<now, impl, prov, streak, hoSucc, admits, chainVars, queueVars,
                       search_cache, slast, chat_sessions, chat_messages, clast, tc, ck,
                       race, corpus>>

\* the provider answered with a result: on_success()
FlightSucceed ==
    /\ flight > 0
    /\ brk' = on_success(impl, brk, prov)
    /\ flight' = flight - 1
    /\ last' = FlightCall("on_success", [ret |-> FALSE, raised |-> FALSE], Cur)
    /\ UNCHANGED <<now, impl, prov, streak, hoSucc, admits, chainVars, queueVars,
                   search_cache, slast, chat_sessions, chat_messages, clast, tc, ck,
                   race, corpus>>

\* the provider answered with nothing or raised: on_failure()
FlightFail ==
    /\ flight > 0
    /\ Cur.failure_count < MaxFailureCount
    /\ brk' = on_failure(impl, brk, prov, now)
    /\ flight' = flight - 1
    /\ last' = FlightCall("on_failure", [ret |-> FALSE, raised |-> FALSE], Cur)
    /\ UNCHANGED <<now, impl, prov, streak, hoSucc, admits, chainVars, queueVars,
                   search_cache, slast, chat_sessions, chat_messages, clast, tc, ck,
                   race, corpus>>

FlightNext == FlightAdmit \/ FlightSucceed \/ FlightFail \/ BrkTick

SpecFlight == FlightInit /\ [][FlightNext]_vars

\* C36: with several calls in flight on one breaker, a breaker that is OPEN
\* is never CLOSED by the next call on it: an OPEN period ends only through
\* can_execute() after the recovery timeout.
C36_NoOpenToClosed ==
    /\ last.pre.state = "OPEN" => Cur.state # "CLOSED"
    /\ (last.pre.state = "OPEN" /\ Cur.state # "OPEN")
          => (last.op = "can_execute" /\ TimeoutElapsed(last))

(***************************************************************************)
(* SpecCorpus: search_documents over a documents table that changes.  The  *)
(* three strategies select chunks of documents with uploader_id = :user_id *)
(* and status = 'ready' (vector_search_service.py lines 109-110, 177-178,  *)
(* 248-249); documents become ready, are marked failed by the reprocess    *)
(* route and are deleted between the calls.  Each document has one chunk.  *)
(***************************************************************************)
MaxDocs == 2   \* SpecCorpus: documents in the table, at most

DocIds == 1..MaxDocs
Users == {"user-a", "user-b"}
CorpusQuery == "alpha"

\* What one call meets: how each strategy ends, and the chunks its WHERE
\* clause on the content matches.
CorpusWorlds ==
    [vector : {"raise", "none", "rows"}, fulltext : {"none", "rows"},
     keyword : {"raise", "rows"}, matched : SUBSET DocIds]

\* FROM chunks c JOIN documents d ... WHERE d.uploader_id = :user_id AND
\* d.status = 'ready' AND <match>: the rows, as the dicts built from them.
RECURSIVE ready_chunks(_, _, _, _, _)
ready_chunks(docs, user_id, matched, method, d) ==
    IF d > MaxDocs THEN <<>>
    ELSE IF /\ d \in DOMAIN docs /\ d \in matched
            /\ docs[d].uploader_id = user_id /\ docs[d].status = "ready"
    THEN <<[chunk_id |-> d, document_id |-> d, search_method |-> method]>>
             \o ready_chunks(docs, user_id, matched, method, d + 1)
    ELSE ready_chunks(docs, user_id, matched, method, d + 1)

corpus_strategy(docs, user_id, kind, matched, method) ==
    IF kind = "raise" THEN StrategyReturn(TRUE, TRUE, <<>>)
    ELSE IF kind = "none"
    THEN StrategyReturn(FALSE, method # "keyword", <<>>)
    ELSE StrategyReturn(FALSE, FALSE, ready_chunks(docs, user_id, matched, method, 1))

\* search_documents, lines 43-74, over the table docs
search_documents_corpus(c, docs, query, user_id, limit, threshold, w) ==
    LET key == cache_key(query, user_id, limit, threshold)
        v == corpus_strategy(docs, user_id, w.vector, w.matched, "vector")
        f == corpus_strategy(docs, user_id, w.fulltext, w.matched, "fulltext")
        k == corpus_strategy(docs, user_id, w.keyword, w.matched, "keyword")
    IN  IF key \in DOMAIN c
        THEN SearchReturn(c, c[key], "cache", FALSE, <<>>)
        ELSE IF ~v.raised /\ TruthyResults(v)
        THEN SearchReturn(search_cache_put(c, key, v.rows), v.rows, "vector_search",
                          FALSE, <<"vector">>)
        ELSE IF ~f.raised /\ TruthyResults(f)
        THEN SearchReturn(search_cache_put(c, key, f.rows), f.rows, "fulltext_search",
                          FALSE, <<"vector", "fulltext">>)
        ELSE IF ~k.raised
        THEN SearchReturn(search_cache_put(c, key, k.rows), k.rows, "keyword_search",
                          FALSE, <<"vector", "fulltext", "keyword">>)
        ELSE SearchReturn(c, <<>>, "search_failed", FALSE, <<"vector", "fulltext", "keyword">>)

\* The documents have been uploaded; some have been processed already.
CorpusInit ==
    /\ BackIdle
    /\ search_cache = EmptyDict /\ slast = NoSearch
    /\ chat_sessions = {} /\ chat_messages = <<>> /\ clast = NoChat
    /\ tc = NoTruncate /\ ck = NoChunking
    /\ race = NoRace /\ flight = 0
    /\ corpus \in [DocIds -> [uploader_id : Users, status : {"queued", "ready"}]]

\* A caller awaits search_documents(query, user_id, limit).
CorpusSearch ==
    \E user_id \in Users, w \in CorpusWorlds :
        LET r == search_documents_corpus(search_cache, corpus, CorpusQuery, user_id,
                                         max_sources, similarity_threshold, w)
        IN  /\ search_cache' = r.cache
            /\ slast' = [op |-> "search", query |-> CorpusQuery, user_id |-> user_id,
                          pre |-> search_cache, results |-> r.results,
                          method |-> r.method, docs |-> corpus]
            /\ UNCHANGED <<now, breakerVars, chainVars, queueVars, chat_sessions,
                           chat_messages, clast, tc, ck, concVars>>

\* _process_document_async, lines 231-251: a queued document becomes ready.
CorpusReady ==
    \E d \in DOMAIN corpus :
        /\ corpus[d].status = "queued"
        /\ corpus' = [corpus EXCEPT ![d].status = "ready"]
        /\ UNCHANGED <<now, breakerVars, chainVars, queueVars, search_cache, slast,
                       chat_sessions, chat_messages, clast, tc, ck, race, flight>>

\* POST /documents/{document_id}/reprocess, documents.py lines 138-153
CorpusReprocess ==
    \E d \in DOMAIN corpus :
        /\ corpus[d].status # "failed"
        /\ corpus' = [corpus EXCEPT ![d].status = "failed"]
        /\ UNCHANGED <<now, breakerVars, chainVars, queueVars, search_cache, slast,
                       chat_sessions, chat_messages, clast, tc, ck, race, flight>>

\* DELETE /documents/{document_id}, documents.py lines 163-172
CorpusDelete ==
    \E d \in DOMAIN corpus :
        /\ corpus' = [x \in DOMAIN corpus \ {d} |-> corpus[x]]
        /\ UNCHANGED <<now, breakerVars, chainVars, queueVars, search_cache, slast,
                       chat_sessions, chat_messages, clast, tc, ck, race, flight>>

CorpusNext ==
    CorpusSearch \/ CorpusReady \/ CorpusReprocess \/ CorpusDelete \/ ClearSearchCache

SpecCorpus == CorpusInit /\ [][CorpusNext]_vars

\* C38: every list search_documents returns for a user, the lists served
\* from the search cache included, holds only chunks of documents that
\* the user owns and whose status is ready at the time of the call.
C38_ResultsOnlyFromReadyOwnedDocuments ==
    slast.op = "search" =>
        \A i \in 1..Len(slast.results) :
            LET d == slast.results[i].document_id
            IN  /\ d \in DOMAIN slast.docs
                /\ slast.docs[d].uploader_id = slast.user_id
                /\ slast.docs[d].status = "ready"

(***************************************************************************)
(* Claims about the caches of the chains (SpecChain).                      *)
(***************************************************************************)
\* The tags of a result that a stage of the chain produced.
StageTags ==
    IF call.op = "embed" THEN {"openai", "local_tfidf", "hash_fallback"}
    ELSE {"openai", "anthropic", "deterministic"}

\* A call that has just returned: a result produced by a stage is in the
\* cache under the call's key; a call whose key was in the cache returned the
\* stored result tagged "cache" and ran no stage; a call on an empty cache
\* ran the stages.
CacheAfterCall ==
    call.op # "none" =>
        /\ (~call.raised /\ call.tag \in StageTags)
              => (CallKey \in DOMAIN svc_cache /\ svc_cache[CallKey] = call.result)
        /\ CallKey \in DOMAIN call.pre.cache
              => (/\ call.tag = "cache" /\ call.events = <<>>
                  /\ call.result = call.pre.cache[CallKey])
        /\ (~call.raised /\ call.pre.cache = EmptyDict)
              => (call.tag # "cache" /\ call.events # <<>>)

\* A step keeps every entry of the cache, or it is clear_cache.
CacheKept ==
    \/ \A k \in DOMAIN svc_cache : k \in DOMAIN svc_cache' /\ svc_cache'[k] = svc_cache[k]
    \/ svc_cache' = EmptyDict /\ call' = NoChainCall

\* C39: on one chain instance, once a call has returned a result of a stage
\* (the hash and the deterministic stage included), every later call with
\* the same request returns that result tagged "cache" without invoking a
\* provider, until clear_cache; after clear_cache the next call runs the
\* fallback order again.
C39_CachedUntilCleared == []CacheAfterCall /\ [][CacheKept]_vars

\* A hash-based vector stored by an earlier call is served from the cache.
C39_Witness ==
    /\ call.op = "embed" /\ call.tag = "cache" /\ call.events = <<>>
    /\ call.result.kind = "hash"

(***************************************************************************)
(* SpecRetryPass: the retry task of a document whose processing pass has   *)
(* stored every chunk without an embedding.  The document is long enough   *)
(* for a retry pass to embed a chunk, then fail failure_threshold chunks,  *)
(* then be denied by the queue breaker; its chunks are all different, so   *)
(* that the embedding cache of the pass does not answer for them.  The     *)
(* broker starts the task at once or after the breaker's recovery timeout. *)
(***************************************************************************)
MaxRetryChunks == 7   \* SpecRetryPass: chunks of the document's text

\* The rows _store_chunk_without_embedding has stored for the document.
NullRows(n) == [j \in 1..n |-> ChunkRow(j - 1, "chunk " \o ToString(j), NoneEmb)]

\* embedding_circuit_breaker as the processing pass left it: untouched when
\* the breaker was open before the pass, opened by the pass otherwise.
RetryPassBreakers ==
    {Q_init, [state |-> "OPEN", failure_count |-> Q_failure_threshold, last_failure_time |-> 0]}

RetryPassInit ==
    /\ BreakerIdle
    /\ FrontIdle
    /\ now \in {0, Q_recovery_timeout + 1}
    /\ chain = "queue"
    /\ env \in [api_key : BOOLEAN, sklearn : BOOLEAN, anthropic : {FALSE}]
    /\ svc_cb = Emb_init
    /\ svc_cache = EmptyDict
    /\ model_loaded = FALSE
    /\ call = NoChainCall
    /\ document = [mime |-> "text/plain", n |-> MaxRetryChunks,
                   status |-> "indexing_pending_quota",
                   error_message |-> final_status(0, MaxRetryChunks).message]
    /\ rows = NullRows(MaxRetryChunks)
    /\ qcb \in RetryPassBreakers
    /\ ptask = [task_delay(0, 0) EXCEPT !.state = "done", !.execs = 1]
    /\ pass = [NoPass EXCEPT !.kind = "process", !.i = MaxRetryChunks,
                             !.failed = MaxRetryChunks, !.added = rows]
    /\ rtask = task_delay(pending_quota_countdown, 0)
    /\ qlast = NoStep

RetryPassNext == RetryStart \/ RetryRaise \/ RetryChunk \/ RetryFinish

SpecRetryPass == RetryPassInit /\ [][RetryPassNext]_vars

\* The step just taken was an iteration of the retry loop at which the
\* breaker denied execution.
RetryDenied ==
    /\ qlast.op = "retry_chunk"
    /\ ~Q_can_execute(qlast.qcb, qlast.t).raised
    /\ ~Q_can_execute(qlast.qcb, qlast.t).ret

\* The positions, in rows, of the chunks the retry pass did not attempt.
Unattempted == {pass.todo[k] : k \in (pass.i + 1)..Len(pass.todo)}

\* C40: in a retry pass, when the queue breaker denies execution at a chunk
\* the pass stops there; its commit leaves every chunk it did not attempt as
\* it was (embedding null, content and index unchanged) and stores the
\* embeddings of the chunks it embedded before.
C40_DeniedRetryStopsAndKeepsRest ==
    /\ RetryDenied => (/\ pass.stopped
                       /\ pass.i = qlast.pass.i
                       /\ pass.added = qlast.pass.added)
    /\ qlast.op = "retry_chunk" => ~qlast.pass.stopped
    /\ (qlast.op = "retry_finish" /\ pass.stopped) =>
          /\ Len(rows) = Len(qlast.rows)
          /\ \A j \in Unattempted : rows[j] = qlast.rows[j] /\ rows[j].embedding = NoneEmb
          /\ \A k \in 1..Len(pass.added) :
                rows[pass.added[k].chunk_index] =
                    [qlast.rows[pass.added[k].chunk_index]
                        EXCEPT !.embedding = pass.added[k].embedding]

\* A retry pass that embedded a chunk and was denied at a later one has
\* committed.
C40_Witness ==
    /\ qlast.op = "retry_finish" /\ pass.stopped
    /\ pass.created > 0
    /\ Unattempted # {}

====
